---- MODULE Spec2Model ----
(***************************************************************************)
(* AMC valuation engine (orea/engine/amcvaluationengine.cpp).              *)
(*                                                                         *)
(* Spec   : the single-threaded buildCube(portfolio, cube) driving         *)
(*          runCoreEngine for one portfolio, one grid and one cube.        *)
(* SpecMT : the multi-threaded buildCube(portfolio): spawn, worker jobs,   *)
(*          join, examination of the return codes.                         *)
(* Both start with the engine's constructor.                               *)
(*                                                                         *)
(* Index conventions.  Grid dates are 1..NumDates here (isValuationDate[d] *)
(* is the source's isValuationDate()[d-1]); the time grid index of date d  *)
(* is d, index 0 being time zero, as in the source.  Samples are           *)
(* 0..samples-1 and the cube date index starts at -1, as in the source.    *)
(* Entries of the per-trade vectors and cube ids are counted from 1.       *)
(* Numbers (npv, fx, numeraire) are kept symbolic: a written cell holds    *)
(* the record of the factors it was computed from.                         *)
(***************************************************************************)
EXTENDS Integers, Sequences, FiniteSets

\* ------------------------------------------------------------------ bounds
MaxTrades == 2
MaxDates == 2
MaxSamples == 2
MaxThreads == 3
MaxPortfolio == 4

VARIABLES
    \* scenario generator data (sgd) and portfolio: inputs of one run
    withCloseOutLag, withMporStickyDate, isValuationDate, isCloseOutDate,
    samples, iface,
    \* arguments of the constructor and of buildCube: the seed of sgd, which of the
    \* two constructors is called, the dimensions of the cube handed in, whether
    \* asd_ is set, and the number of mini-cubes an earlier call has left
    seed, useMultithreading, cubeNumIds, cubeNumDates, hasAsd, earlierCubes,
    \* runCoreEngine: control
    pc, failure, progressCounter, i, j,
    \* runCoreEngine: the five per-trade vectors
    amcCalculators, tradeId, tradeLabel, effectiveMultiplier, currencyIndex,
    \* output cube, and the calls issued on it, in order
    t0, cube, log,
    \* logs
    tradeErrors, alog,
    \* path generator and buffers
    pathsDrawn, bufferFilled,
    \* fault injection bookkeeping
    faulted,
    \* the simulatePath invocations made, in order
    invoked,
    \* multi-threaded buildCube(portfolio)
    nThreads, mtSize, mtPc, spawned, joined, examined, wStage, wFault, rc,
    miniCubes, mtError, loaders, asd,
    \* runs compared with each other: which run the core variables belong to, the
    \* outcome of the first single-threaded run, the worker whose core loop is
    \* running, and the mini-cubes of the workers that have finished
    run, first, worker, miniResults,
    \* JointNPVCube: the input cubes, the joint cube built over them, and the last
    \* write issued on the joint cube
    cubes_, joint, lastWrite,
    \* aggregation scenario data: the configured indices (each found in the market or
    \* not) and currencies, the position in runCoreEngine, the vectors collected, the
    \* indices logged as skipped, and the calls of asd->set in order
    aggDataIndices, aggDataCurrencies, asdPc, asdIndexName, asdCurrencyCode, asdAlog, asdLog,
    \* the last call of effectiveSimulationPath with its result
    filteredPath

sgdVars == <<withCloseOutLag, withMporStickyDate, isValuationDate, isCloseOutDate,
             samples, iface, seed, useMultithreading, cubeNumIds, cubeNumDates, hasAsd,
             earlierCubes>>
coreVars == <<pc, failure, progressCounter, i, j, amcCalculators, tradeId, tradeLabel,
              effectiveMultiplier, currencyIndex, t0, cube, log, tradeErrors, alog,
              pathsDrawn, bufferFilled, faulted, invoked>>
mtVars == <<nThreads, mtSize, mtPc, spawned, joined, examined, wStage, wFault, rc,
            miniCubes, mtError, loaders, asd>>
runVars == <<run, first, worker, miniResults>>
jointVars == <<cubes_, joint, lastWrite>>
asdVars == <<aggDataIndices, aggDataCurrencies, asdPc, asdIndexName, asdCurrencyCode, asdAlog,
             asdLog>>
pathVars == <<filteredPath>>
vars == <<sgdVars, coreVars, mtVars, runVars, jointVars, asdVars, pathVars>>

\* ------------------------------------------------------------------ grid
NumDates == Len(isValuationDate)
\* sgd->getGrid()->timeGrid().size(): time zero plus one time per date
PathSize == NumDates + 1
ValuationDates == {d \in 1..NumDates : isValuationDate[d]}
CloseOutDates == {d \in 1..NumDates : isCloseOutDate[d]}
NumValuationDates == Cardinality(ValuationDates)
\* sgd->getGrid()->valuationTimeGrid().size()
ValuationPathSize == NumValuationDates + 1
PortfolioSize == Len(iface)
Trades == 1..PortfolioSize
\* the value of a cube slot no set or setT0 has written
Unset == [w |-> FALSE]

\* outputCube->numIds() and the cells of outputCube: the cube is the caller's, and
\* buildCube checks its first two dimensions against the portfolio and the grid
NumIds == cubeNumIds
CubeCells == (1..NumIds) \X (0..(cubeNumDates - 1)) \X (0..(samples - 1)) \X {0, 1}

\* ------------------------------------------------------- calculator results
\* A result is kept as [ok, size, inv]: whether the calculator returned (ok) or the
\* zero substitute was built, its length, and the invocation it comes from
\* ("all": the whole path, "val": valuation times, "cout": close-out times).

\* AmcCalculatorSinglePath::simulatePath: one value per time step of the given path
SinglePathResultSize(pathSize) == pathSize

\* AmcCalculatorMultiVariates::simulatePath: one entry per relevant time plus time zero
BatchedResultSize(isRelevantTime) ==
    Cardinality({d \in 1..Len(isRelevantTime) : isRelevantTime[d]}) + 1

simulatePathInterface1(pathSize, inv, throws) ==
    IF throws
    THEN [ok |-> FALSE, size |-> pathSize, inv |-> inv]
    ELSE [ok |-> TRUE, size |-> SinglePathResultSize(pathSize), inv |-> inv]

simulatePathInterface2(pathTimesSize, isRelevantTime, inv, throws) ==
    IF throws
    THEN [ok |-> FALSE, size |-> pathTimesSize + 1, inv |-> inv]
    ELSE [ok |-> TRUE, size |-> BatchedResultSize(isRelevantTime), inv |-> inv]

\* masks of the batched interface
allTimes == [d \in 1..NumDates |-> TRUE]
valuationTimes == [d \in 1..NumDates |-> isValuationDate[d]]
closeOutTimes == [d \in 1..NumDates |-> isCloseOutDate[d]]

\* ------------------------------------------------------------ write loops
\* One cube->set of a loop, before the trade and the sample are filled in: the cube
\* date index and depth, the result entry read (src, pos), the grid index the fx rate
\* and the ir state are read at (at), the grid index of the time handed to the
\* numeraire (time) and the scaling used (numRatio or num).
Slot(dateIndex, depth, src, pos, at, time, scale) ==
    [dateIndex |-> dateIndex, depth |-> depth, src |-> src, pos |-> pos, at |-> at,
     time |-> time, scale |-> scale]

\* A loop yields the slots written in order and whether it ended in the QL_REQUIRE
\* "first date in grid must be a valuation date".
\* A no-lag loop that puts its values into depth 1: what C5 rules out.
RECURSIVE NoLagLoop1_Depth1(_, _, _)
NoLagLoop1_Depth1(k, dateIndex, size) ==
    IF k >= size THEN [w |-> <<>>, err |-> FALSE]
    ELSE LET rest == NoLagLoop1_Depth1(k + 1, dateIndex + 1, size)
         IN  [w |-> <<Slot(dateIndex + 1, 1, "res", k, k, k, "numRatio")>> \o rest.w,
              err |-> rest.err]

\* A no-lag loop that stops one entry before the end of the result: what C24 rules
\* out.
RECURSIVE NoLagLoop1_StopsEarly(_, _, _)
NoLagLoop1_StopsEarly(k, dateIndex, size) ==
    IF k + 1 >= size THEN [w |-> <<>>, err |-> FALSE]
    ELSE LET rest == NoLagLoop1_StopsEarly(k + 1, dateIndex + 1, size)
         IN  [w |-> <<Slot(dateIndex + 1, 0, "res", k, k, k, "numRatio")>> \o rest.w,
              err |-> rest.err]

RECURSIVE NoLagLoop1(_, _, _)
NoLagLoop1(k, dateIndex, size) ==
    IF k >= size THEN [w |-> <<>>, err |-> FALSE]
    ELSE LET rest == NoLagLoop1(k + 1, dateIndex + 1, size)
         IN  [w |-> <<Slot(dateIndex + 1, 0, "res", k, k, k, "numRatio")>> \o rest.w,
              err |-> rest.err]

\* A sticky-date loop that advances the date index before the close-out write, so
\* that the close-out value lands under the index of the same date: what C6 rules out.
RECURSIVE StickyDateLoop1_AdvanceFirst(_, _)
StickyDateLoop1_AdvanceFirst(k, dateIndex) ==
    IF k >= NumDates THEN [w |-> <<>>, err |-> FALSE]
    ELSE LET di == IF isValuationDate[k + 1] THEN dateIndex + 1 ELSE dateIndex
         IN  IF isCloseOutDate[k + 1] /\ di < 0 THEN [w |-> <<>>, err |-> TRUE]
             ELSE LET vw == IF isValuationDate[k + 1]
                            THEN <<Slot(di, 0, "res", di + 1, k + 1, k + 1, "numRatio")>>
                            ELSE <<>>
                      cw == IF isCloseOutDate[k + 1]
                            THEN <<Slot(di, 1, "resCout", di + 1, k + 1, k, "num")>>
                            ELSE <<>>
                      rest == StickyDateLoop1_AdvanceFirst(k + 1, di)
                  IN  [w |-> vw \o cw \o rest.w, err |-> rest.err]

RECURSIVE StickyDateLoop1(_, _)
StickyDateLoop1(k, dateIndex) ==
    IF k >= NumDates THEN [w |-> <<>>, err |-> FALSE]
    ELSE IF isCloseOutDate[k + 1] /\ dateIndex < 0 THEN [w |-> <<>>, err |-> TRUE]
    ELSE LET cw == IF isCloseOutDate[k + 1]
                   THEN <<Slot(dateIndex, 1, "resCout", dateIndex + 1, k + 1, k, "num")>>
                   ELSE <<>>
             di == IF isValuationDate[k + 1] THEN dateIndex + 1 ELSE dateIndex
             vw == IF isValuationDate[k + 1]
                   THEN <<Slot(di, 0, "res", di + 1, k + 1, k + 1, "numRatio")>>
                   ELSE <<>>
             rest == StickyDateLoop1(k + 1, di)
         IN  [w |-> cw \o vw \o rest.w, err |-> rest.err]

\* An actual-date loop that advances the date index before the close-out write:
\* what C3 rules out.
RECURSIVE ActualDateLoop1_AdvanceFirst(_, _, _)
ActualDateLoop1_AdvanceFirst(k, dateIndex, size) ==
    IF k >= size THEN [w |-> <<>>, err |-> FALSE]
    ELSE LET di == IF isValuationDate[k] THEN dateIndex + 1 ELSE dateIndex
         IN  IF isCloseOutDate[k] /\ di < 0 THEN [w |-> <<>>, err |-> TRUE]
             ELSE LET vw == IF isValuationDate[k]
                            THEN <<Slot(di, 0, "res", k, k, k, "numRatio")>>
                            ELSE <<>>
                      cw == IF isCloseOutDate[k]
                            THEN <<Slot(di, 1, "res", k, k, k, "num")>>
                            ELSE <<>>
                      rest == ActualDateLoop1_AdvanceFirst(k + 1, di, size)
                  IN  [w |-> vw \o cw \o rest.w, err |-> rest.err]

RECURSIVE ActualDateLoop1(_, _, _)
ActualDateLoop1(k, dateIndex, size) ==
    IF k >= size THEN [w |-> <<>>, err |-> FALSE]
    ELSE IF isCloseOutDate[k] /\ dateIndex < 0 THEN [w |-> <<>>, err |-> TRUE]
    ELSE LET cw == IF isCloseOutDate[k]
                   THEN <<Slot(dateIndex, 1, "res", k, k, k, "num")>>
                   ELSE <<>>
             di == IF isValuationDate[k] THEN dateIndex + 1 ELSE dateIndex
             vw == IF isValuationDate[k]
                   THEN <<Slot(di, 0, "res", k, k, k, "numRatio")>>
                   ELSE <<>>
             rest == ActualDateLoop1(k + 1, di, size)
         IN  [w |-> cw \o vw \o rest.w, err |-> rest.err]

\* A no-lag loop that writes the k-th entry under date index k: what C34 rules out.
RECURSIVE NoLagLoop2_IndexFromOne(_, _)
NoLagLoop2_IndexFromOne(k, size) ==
    IF k >= size THEN [w |-> <<>>, err |-> FALSE]
    ELSE LET rest == NoLagLoop2_IndexFromOne(k + 1, size)
         IN  [w |-> <<Slot(k, 0, "res", k, k, k, "numRatio")>> \o rest.w,
              err |-> rest.err]

RECURSIVE NoLagLoop2(_, _)
NoLagLoop2(k, size) ==
    IF k >= size THEN [w |-> <<>>, err |-> FALSE]
    ELSE LET rest == NoLagLoop2(k + 1, size)
         IN  [w |-> <<Slot(k - 1, 0, "res", k, k, k, "numRatio")>> \o rest.w,
              err |-> rest.err]

\* A sticky-date loop that scales the close-out value by the numeraire ratio: what
\* C33 rules out.
RECURSIVE StickyDateLoop2_RatioAtCloseOut(_, _)
StickyDateLoop2_RatioAtCloseOut(k, dateIndex) ==
    IF k >= NumDates THEN [w |-> <<>>, err |-> FALSE]
    ELSE IF isCloseOutDate[k + 1] /\ dateIndex < 0 THEN [w |-> <<>>, err |-> TRUE]
    ELSE LET cw == IF isCloseOutDate[k + 1]
                   THEN <<Slot(dateIndex, 1, "resCout", dateIndex + 1, k + 1, k, "numRatio")>>
                   ELSE <<>>
             di == IF isValuationDate[k + 1] THEN dateIndex + 1 ELSE dateIndex
             vw == IF isValuationDate[k + 1]
                   THEN <<Slot(di, 0, "res", di + 1, k + 1, k + 1, "numRatio")>>
                   ELSE <<>>
             rest == StickyDateLoop2_RatioAtCloseOut(k + 1, di)
         IN  [w |-> cw \o vw \o rest.w, err |-> rest.err]

RECURSIVE StickyDateLoop2(_, _)
StickyDateLoop2(k, dateIndex) ==
    IF k >= NumDates THEN [w |-> <<>>, err |-> FALSE]
    ELSE IF isCloseOutDate[k + 1] /\ dateIndex < 0 THEN [w |-> <<>>, err |-> TRUE]
    ELSE LET cw == IF isCloseOutDate[k + 1]
                   THEN <<Slot(dateIndex, 1, "resCout", dateIndex + 1, k + 1, k, "num")>>
                   ELSE <<>>
             di == IF isValuationDate[k + 1] THEN dateIndex + 1 ELSE dateIndex
             vw == IF isValuationDate[k + 1]
                   THEN <<Slot(di, 0, "res", di + 1, k + 1, k + 1, "numRatio")>>
                   ELSE <<>>
             rest == StickyDateLoop2(k + 1, di)
         IN  [w |-> cw \o vw \o rest.w, err |-> rest.err]

\* An actual-date loop without the QL_REQUIRE(dateIndex >= 0, ..): what C4 rules out.
RECURSIVE ActualDateLoop2_NoRequire(_, _, _)
ActualDateLoop2_NoRequire(k, dateIndex, size) ==
    IF k >= size THEN [w |-> <<>>, err |-> FALSE]
    ELSE LET cw == IF isCloseOutDate[k]
                   THEN <<Slot(dateIndex, 1, "res", k, k, k, "num")>>
                   ELSE <<>>
             di == IF isValuationDate[k] THEN dateIndex + 1 ELSE dateIndex
             vw == IF isValuationDate[k]
                   THEN <<Slot(di, 0, "res", k, k, k, "numRatio")>>
                   ELSE <<>>
             rest == ActualDateLoop2_NoRequire(k + 1, di, size)
         IN  [w |-> cw \o vw \o rest.w, err |-> rest.err]

RECURSIVE ActualDateLoop2(_, _, _)
ActualDateLoop2(k, dateIndex, size) ==
    IF k >= size THEN [w |-> <<>>, err |-> FALSE]
    ELSE IF isCloseOutDate[k] /\ dateIndex < 0 THEN [w |-> <<>>, err |-> TRUE]
    ELSE LET cw == IF isCloseOutDate[k]
                   THEN <<Slot(dateIndex, 1, "res", k, k, k, "num")>>
                   ELSE <<>>
             di == IF isValuationDate[k] THEN dateIndex + 1 ELSE dateIndex
             vw == IF isValuationDate[k]
                   THEN <<Slot(di, 0, "res", k, k, k, "numRatio")>>
                   ELSE <<>>
             rest == ActualDateLoop2(k + 1, di, size)
         IN  [w |-> cw \o vw \o rest.w, err |-> rest.err]

\* ------------------------------------------------------------- cube writes
\* fx(), numRatio(), num() and the multiplier of one set: the factors are kept by
\* name.  An entry of a per-trade vector read beyond the vector's end is 0 (no
\* trade): the value read there is indeterminate.
VecAt(v, jj) == IF jj <= Len(v) THEN v[jj] ELSE 0

\* fx(fxBuffer, ccyIndex, timeIndex, sample): 1.0 for the base currency, else the
\* buffered rate
fx(ccyIndex, timeIndex, sample) ==
    IF ccyIndex = 0 THEN <<[const |-> "1.0"]>>
    ELSE <<[buffer |-> "fx", factor |-> ccyIndex - 1, at |-> timeIndex, sample |-> sample]>>
\* state(irStateBuffer, ccyIndex, timeIndex, sample)
state(ccyIndex, timeIndex, sample) ==
    [buffer |-> "ir", factor |-> ccyIndex, at |-> timeIndex, sample |-> sample]
\* model->numeraire(ccyIndex, time, state)
numeraire(ccyIndex, time, st) == [numeraire |-> ccyIndex, time |-> time, st |-> st]
\* numRatio(model, irStateBuffer, ccyIndex, timeIndex, time, sample): the factors
\* above and below the line
numRatio(ccyIndex, timeIndex, time, sample) ==
    IF ccyIndex = 0 THEN [over |-> <<[const |-> "1.0"]>>, under |-> <<>>]
    ELSE [over |-> <<numeraire(ccyIndex, time, state(ccyIndex, timeIndex, sample))>>,
          under |-> <<numeraire(0, time, state(0, timeIndex, sample))>>]
\* num(model, irStateBuffer, ccyIndex, timeIndex, time, sample)
num(ccyIndex, timeIndex, time, sample) ==
    [over |-> <<numeraire(ccyIndex, time, state(ccyIndex, timeIndex, sample))>>,
     under |-> <<>>]
\* the scaling of a cube value for a trade in currency ccyIndex: the fx rate and the
\* numeraire term named by the value
ScaleOf(v, ccyIndex) ==
    [fx |-> fx(ccyIndex, v.at, v.sample),
     numeraire |-> IF v.scale = "numRatio" THEN numRatio(ccyIndex, v.at, v.time, v.sample)
                   ELSE num(ccyIndex, v.at, v.time, v.sample)]

CellValue(jj, r, slot, sample) ==
    [w |-> TRUE, zero |-> ~r.ok, calc |-> amcCalculators[jj], inv |-> r.inv, pos |-> slot.pos,
     ccy |-> VecAt(currencyIndex, jj), mult |-> VecAt(effectiveMultiplier, jj),
     at |-> slot.at, time |-> slot.time, sample |-> sample, scale |-> slot.scale]

\* A T0 value that reads the buffers at the sample after the current one: what C35
\* rules out.
T0Value_NextSample(jj, r) == CellValue(jj, r, Slot(0, 0, "res", 0, 0, 0, "numRatio"), i + 1)
\* res[0] * fx(.., 0, 0) * numRatio(.., 0, 0.0, 0) * effectiveMultiplier[j]
T0Value(jj, r) == CellValue(jj, r, Slot(0, 0, "res", 0, 0, 0, "numRatio"), 0)

SetCall(jj, id, r, rCout, slot, sample) ==
    [kind |-> "set", j |-> jj, id |-> id, dateIndex |-> slot.dateIndex,
     sample |-> sample, depth |-> slot.depth,
     val |-> CellValue(jj, IF slot.src = "res" THEN r ELSE rCout, slot, sample)]

\* the set calls of one single-path valuation: the slots in order, for one sample
SinglePathCalls(jj, id, r, rCout, slots, sample) ==
    [n \in 1..Len(slots) |-> SetCall(jj, id, r, rCout, slots[n], sample)]

\* A batched pass that writes every slot for the first sample only: what C40 rules
\* out.
BatchedCalls_FirstSampleOnly(jj, id, r, rCout, slots) ==
    [n \in 1..Len(slots) |-> SetCall(jj, id, r, rCout, slots[n], 0)]
\* the set calls of one batched valuation: for every slot, all samples in order
BatchedCalls(jj, id, r, rCout, slots) ==
    [n \in 1..(Len(slots) * samples) |->
        SetCall(jj, id, r, rCout, slots[((n - 1) \div samples) + 1], (n - 1) % samples)]

CellOf(call) == <<call.id, call.dateIndex, call.sample, call.depth>>

\* NPVCube::set applied for a sequence of calls: the last call on a cell stays
ApplyCalls(c, calls) ==
    [cell \in DOMAIN c |->
        LET hits == {n \in 1..Len(calls) : CellOf(calls[n]) = cell}
        IN  IF hits = {} THEN c[cell]
            ELSE calls[CHOOSE n \in hits : \A m \in hits : m <= n].val]

\* the five per-trade vectors all hold an entry j
InRange(jj) ==
    /\ jj <= Len(tradeId)
    /\ jj <= Len(tradeLabel)
    /\ jj <= Len(effectiveMultiplier)
    /\ jj <= Len(currencyIndex)

\* ------------------------------------------------------------------- Init
OrderingError == "first date in grid must be a valuation date"

GridFlags == {"V", "C", "VC"}

\* The grids of a run.  Without close-out lag every date is a valuation date and
\* none a close-out date.  With sticky date mpor the close-out times are moved to
\* the valuation times, so there are as many of one as of the other.
GridOk(lag, sticky, g) ==
    LET nV == Cardinality({d \in 1..Len(g) : g[d] \in {"V", "VC"}})
        nC == Cardinality({d \in 1..Len(g) : g[d] \in {"C", "VC"}})
    IN  /\ ~lag => nC = 0
        /\ sticky => (lag /\ nV = nC)

Grids(n) == [1..n -> GridFlags]

InitSgd ==
    /\ withCloseOutLag \in BOOLEAN
    /\ withMporStickyDate \in BOOLEAN
    /\ samples \in {1, MaxSamples}
    /\ \E n \in 1..MaxDates : \E g \in Grids(n) :
          /\ GridOk(withCloseOutLag, withMporStickyDate, g)
          /\ isValuationDate = [d \in 1..n |-> g[d] \in {"V", "VC"}]
          /\ isCloseOutDate = [d \in 1..n |-> g[d] \in {"C", "VC"}]

\* the seeds of sgd: 0 and a non-zero one
Seeds == {0, 42}

InitCore ==
    /\ \E n \in 0..MaxTrades : iface = [p \in 1..n |-> 0]
    /\ seed \in Seeds
    /\ useMultithreading \in BOOLEAN
    /\ cubeNumIds \in 0..MaxTrades
    /\ cubeNumDates \in 0..MaxDates
    /\ hasAsd = FALSE
    /\ earlierCubes = 0
    /\ pc = "new"
    /\ failure = "none"
    /\ progressCounter = 0
    /\ i = 0
    /\ j = 1
    /\ amcCalculators = <<>>
    /\ tradeId = <<>>
    /\ tradeLabel = <<>>
    /\ effectiveMultiplier = <<>>
    /\ currencyIndex = <<>>
    /\ t0 = [id \in 1..NumIds |-> Unset]
    /\ cube = [cell \in CubeCells |-> Unset]
    /\ log = <<>>
    /\ tradeErrors = {}
    /\ alog = {}
    /\ pathsDrawn = 0
    /\ bufferFilled = {}
    /\ faulted = FALSE
    /\ invoked = <<>>

\* ------------------------------------------------------------ constructors
\* Requirements without the one on the seed: what C18 rules out.
CtorChecks_NoSeed(sd, other) ==
    IF other = "market" THEN "market is required for asd generation"
    ELSE IF other = "dayCounter" THEN "day counter is different from model day counter"
    ELSE "none"

\* The requirements of the constructor for single-threaded runs, in order; other
\* names the one of the two requirements on market and day counter that the
\* arguments do not meet, if any.  Returns the message of the failure, or "none".
CtorChecks(sd, other) ==
    IF other = "market" THEN "market is required for asd generation"
    ELSE IF sd = 0 THEN "path generation uses seed 0"
    ELSE IF other = "dayCounter" THEN "day counter is different from model day counter"
    ELSE "none"

\* The requirements of the constructor for multi-threaded runs; sessions tells
\* whether the build has QL_ENABLE_SESSIONS.
CtorChecksMT(sd, sessions) ==
    IF ~sessions THEN "requires a build with QL_ENABLE_SESSIONS"
    ELSE IF sd = 0 THEN "path generation uses seed 0"
    ELSE "none"

\* The constructor returns an engine on which buildCube can be called, or throws.
Constructed(res) ==
    IF pc = "new"
    THEN /\ pc' = IF res = "none" THEN "start" ELSE "noEngine"
         /\ failure' = res
         /\ UNCHANGED <<mtPc, mtError>>
    ELSE /\ mtPc = "new"
         /\ mtPc' = IF res = "none" THEN "start" ELSE "noEngine"
         /\ mtError' = [msg |-> res, threads |-> {}]
         /\ UNCHANGED <<pc, failure>>

Construct ==
    /\ ~useMultithreading
    /\ \E other \in {"none", "market", "dayCounter"} : Constructed(CtorChecks(seed, other))
    /\ UNCHANGED <<invoked, pathVars, asdVars, jointVars, runVars, sgdVars, progressCounter, i, j, amcCalculators, tradeId,
                   tradeLabel, effectiveMultiplier, currencyIndex, t0, cube, log,
                   tradeErrors, alog, pathsDrawn, bufferFilled, faulted,
                   nThreads, mtSize, spawned, joined, examined, wStage, wFault, rc,
                   miniCubes, loaders, asd>>

ConstructMT ==
    /\ useMultithreading
    /\ \E sessions \in BOOLEAN : Constructed(CtorChecksMT(seed, sessions))
    /\ UNCHANGED <<invoked, pathVars, asdVars, jointVars, runVars, sgdVars, progressCounter, i, j, amcCalculators, tradeId,
                   tradeLabel, effectiveMultiplier, currencyIndex, t0, cube, log,
                   tradeErrors, alog, pathsDrawn, bufferFilled, faulted,
                   nThreads, mtSize, spawned, joined, examined, wStage, wFault, rc,
                   miniCubes, loaders, asd>>

\* ---------------------------------------------- buildCube(portfolio, cube)
\* Requirements without the one on the cube's number of dates: what C17 rules out.
BuildCubeChecks_NoDates ==
    IF useMultithreading THEN "engine was constructed for multi-threaded runs"
    ELSE IF PortfolioSize = 0 THEN "empty portfolio"
    ELSE IF cubeNumIds # PortfolioSize THEN "cube x dimension different from portfolio size"
    ELSE "none"

\* The requirements of buildCube(portfolio, outputCube), in order.  Returns the
\* message of the first one that fails, or "none".
BuildCubeChecks ==
    IF useMultithreading THEN "engine was constructed for multi-threaded runs"
    ELSE IF PortfolioSize = 0 THEN "empty portfolio"
    ELSE IF cubeNumIds # PortfolioSize THEN "cube x dimension different from portfolio size"
    ELSE IF cubeNumDates # NumValuationDates
    THEN "cube y dimension different from number of valuation dates"
    ELSE "none"

\* The messages buildCube(portfolio, outputCube) can fail with before the core loop
PreRunFailures ==
    {"engine was constructed for multi-threaded runs", "empty portfolio",
     "cube x dimension different from portfolio size",
     "cube y dimension different from number of valuation dates"}

\* The checks before the core loop.
BuildCube ==
    /\ pc = "start"
    /\ IF BuildCubeChecks = "none"
       THEN pc' = "extract" /\ failure' = failure
       ELSE pc' = "threw" /\ failure' = BuildCubeChecks
    /\ UNCHANGED <<invoked, pathVars, asdVars, jointVars, runVars, sgdVars, mtVars, progressCounter, i, j, amcCalculators, tradeId,
                   tradeLabel, effectiveMultiplier, currencyIndex, t0, cube, log,
                   tradeErrors, alog, pathsDrawn, bufferFilled, faulted>>

\* ----------------------------------------------------------- runCoreEngine
\* What one trade's extraction does: "ok" runs to the end of the try block, the
\* others throw where the calculator is obtained ("calc"), where the multiplier is
\* obtained ("mult"), in model->ccyIndex ("ccy"), or in the lookup of the trade id in
\* the output cube ("id").
ExtractionOutcomes == {"ok", "calc", "mult", "ccy", "id"}
LateOutcomes == {"mult", "ccy", "id"}

\* the vectors that have been pushed to when the try block is left
Pushed(o) ==
    CASE o = "ok" -> {"amcCalculators", "effectiveMultiplier", "currencyIndex",
                      "tradeId", "tradeLabel"}
      [] o = "calc" -> {}
      [] o = "mult" -> {"amcCalculators"}
      [] o = "ccy" -> {"amcCalculators", "effectiveMultiplier"}
      [] o = "id" -> {"amcCalculators", "effectiveMultiplier", "currencyIndex"}

PushBack(v, name, o, p) == IF name \in Pushed(o) THEN Append(v, p) ELSE v

Extract ==
    /\ pc = "extract"
    /\ \E o \in ExtractionOutcomes, t \in {1, 2} :
          LET p == progressCounter + 1 IN
          /\ o \in LateOutcomes => ~faulted
          /\ faulted' = (faulted \/ o \in LateOutcomes)
          /\ iface' = [iface EXCEPT ![p] = IF o = "calc" THEN 0 ELSE t]
          /\ amcCalculators' = PushBack(amcCalculators, "amcCalculators", o, p)
          /\ effectiveMultiplier' = PushBack(effectiveMultiplier, "effectiveMultiplier", o, p)
          /\ currencyIndex' = PushBack(currencyIndex, "currencyIndex", o, p)
          /\ tradeId' = PushBack(tradeId, "tradeId", o, p)
          /\ tradeLabel' = PushBack(tradeLabel, "tradeLabel", o, p)
          /\ tradeErrors' = IF o = "ok" THEN tradeErrors ELSE tradeErrors \cup {p}
          /\ progressCounter' = p
          /\ pc' = IF p = PortfolioSize THEN "path" ELSE "extract"
          /\ o = "calc" => t = 1
    /\ UNCHANGED <<invoked, pathVars, asdVars, jointVars, runVars, withCloseOutLag, withMporStickyDate, isValuationDate,
                   isCloseOutDate, samples, seed, useMultithreading, cubeNumIds, cubeNumDates, hasAsd,
                   earlierCubes, mtVars, failure, i, j, t0, cube, log, alog, pathsDrawn,
                   bufferFilled>>

\* A sample loop that draws one more path per calculator: what C20 rules out.
NextPath_PerCalculator ==
    /\ pc = "path"
    /\ pathsDrawn' = pathsDrawn + 1 + Len(amcCalculators)
    /\ bufferFilled' = bufferFilled \cup {i}
    /\ j' = 1
    /\ pc' = "single"
    /\ UNCHANGED <<invoked, pathVars, asdVars, jointVars, runVars, sgdVars, mtVars, failure, progressCounter, i, amcCalculators, tradeId,
                   tradeLabel, effectiveMultiplier, currencyIndex, t0, cube, log,
                   tradeErrors, alog, faulted>>

\* pathGenerator->next() and the fill of fxBuffer, irStateBuffer and paths for sample i
NextPath ==
    /\ pc = "path"
    /\ pathsDrawn' = pathsDrawn + 1
    /\ bufferFilled' = bufferFilled \cup {i}
    /\ j' = 1
    /\ pc' = "single"
    /\ UNCHANGED <<invoked, pathVars, asdVars, jointVars, runVars, sgdVars, mtVars, failure, progressCounter, i, amcCalculators, tradeId,
                   tradeLabel, effectiveMultiplier, currencyIndex, t0, cube, log,
                   tradeErrors, alog, faulted>>

\* effectiveSimulationPath(sgd, path, ..).pathSize(): the valuation time grid
EffectivePathSize == ValuationPathSize

\* A read of entry j of a per-trade vector that holds no entry j is undefined
\* behaviour: the run is killed, or goes on with an indeterminate value.
UbOutcomes(jj) == IF InRange(jj) THEN {"none"} ELSE {"crash", "garbage"}
\* tradeId[j]: the entry, or any index (one beyond the cube's ids included)
TradeIdAt(jj) == IF jj <= Len(tradeId) THEN {tradeId[jj]} ELSE 1..(NumIds + 1)

\* the ALOG entry of a simulatePath that threw (trade label, sample; -1 for the
\* batched interface), with the zero result returned in its place
Substituted(jj, sample, r) ==
    [label |-> VecAt(tradeLabel, jj), calc |-> amcCalculators[jj], sample |-> sample,
     inv |-> r.inv, size |-> r.size]

\* one call of simulatePath: the calculator, the sample (-1: all samples at once), the
\* times handed in and the flag reuseLastEvents / moveStateToPreviousTime
Invocation(jj, sample, inv, flag) ==
    [calc |-> amcCalculators[jj], j |-> jj, sample |-> sample, inv |-> inv, flag |-> flag]

\* the calls one pass for a single-path calculator makes: in sticky date mode the path
\* on the valuation dates, then the path on the close-out dates
SinglePathInvocations_Once(jj, sample) ==
    <<Invocation(jj, sample, IF withCloseOutLag /\ withMporStickyDate THEN "val" ELSE "all",
                 FALSE)>>
SinglePathInvocations(jj, sample) ==
    IF withCloseOutLag /\ withMporStickyDate
    THEN <<Invocation(jj, sample, "val", FALSE), Invocation(jj, sample, "cout", TRUE)>>
    ELSE <<Invocation(jj, sample, "all", FALSE)>>

\* the calls one pass for a batched calculator makes
BatchedInvocations_PerSample(jj) ==
    [n \in 1..samples |-> Invocation(jj, -1, "all", FALSE)]
BatchedInvocations(jj) ==
    IF withCloseOutLag /\ withMporStickyDate
    THEN <<Invocation(jj, -1, "val", FALSE), Invocation(jj, -1, "cout", TRUE)>>
    ELSE <<Invocation(jj, -1, "all", FALSE)>>

SinglePathLoop(r) ==
    IF ~withCloseOutLag THEN NoLagLoop1(1, -1, r.size)
    ELSE IF withMporStickyDate THEN StickyDateLoop1(0, -1)
    ELSE ActualDateLoop1(1, -1, r.size)

T0Call(jj, id, r, sample) ==
    [kind |-> "setT0", j |-> jj, id |-> id, dateIndex |-> 0, sample |-> sample,
     depth |-> 0, val |-> T0Value(jj, r)]

\* one pass of the loop over amcCalculators inside the sample loop
ValueSinglePath ==
    /\ pc = "single"
    /\ j <= Len(amcCalculators)
    /\ IF iface[amcCalculators[j]] # 1
       THEN /\ j' = j + 1
            /\ UNCHANGED <<pc, failure, t0, cube, log, alog, faulted, invoked>>
       ELSE \E th \in BOOLEAN, thC \in BOOLEAN, ub \in UbOutcomes(j), id \in TradeIdAt(j) :
            LET sticky == withCloseOutLag /\ withMporStickyDate
                r == IF sticky THEN simulatePathInterface1(EffectivePathSize, "val", th)
                     ELSE simulatePathInterface1(PathSize, "all", th)
                rCout == simulatePathInterface1(EffectivePathSize, "cout", thC)
                loop == SinglePathLoop(r)
                calls == SinglePathCalls(j, id, r, rCout, loop.w, i)
            IN  /\ thC => sticky
                /\ (th \/ thC) => (~faulted /\ ~(th /\ thC))
                /\ ub = "crash" => (~th /\ ~thC /\ id = 1)
                /\ faulted' = (faulted \/ th \/ thC)
                /\ alog' = IF th \/ thC
                           THEN alog \cup {Substituted(j, i, IF th THEN r ELSE rCout)}
                           ELSE alog
                /\ invoked' = IF ub = "crash" THEN invoked
                              ELSE invoked \o SinglePathInvocations(j, i)
                /\ IF ub = "crash"
                   THEN /\ pc' = "crashed"
                        /\ UNCHANGED <<failure, t0, cube, log, j>>
                   ELSE IF id > NumIds
                   THEN /\ pc' = "threw"
                        /\ failure' = "cube index"
                        /\ UNCHANGED <<t0, cube, log, j>>
                   ELSE /\ t0' = [t0 EXCEPT ![id] = T0Value(j, r)]
                        /\ cube' = ApplyCalls(cube, calls)
                        /\ log' = log \o <<T0Call(j, id, r, i)>> \o calls
                        /\ IF loop.err
                           THEN /\ pc' = "threw"
                                /\ failure' = OrderingError
                                /\ j' = j
                           ELSE /\ j' = j + 1
                                /\ UNCHANGED <<pc, failure>>
    /\ UNCHANGED <<pathVars, asdVars, jointVars, runVars, sgdVars, mtVars, progressCounter, i, amcCalculators, tradeId,
                   tradeLabel, effectiveMultiplier, currencyIndex, tradeErrors,
                   pathsDrawn, bufferFilled>>

\* end of one pass of the sample loop; after the last one updateProgress
EndSample_BatchedEarly ==
    /\ pc = "single"
    /\ j > Len(amcCalculators)
    /\ i' = i + 1
    /\ j' = 1
    /\ pc' = "batched"
    /\ progressCounter' = progressCounter + 1
    /\ UNCHANGED <<invoked, pathVars, asdVars, jointVars, runVars, sgdVars, mtVars, failure, amcCalculators, tradeId, tradeLabel,
                   effectiveMultiplier, currencyIndex, t0, cube, log, tradeErrors, alog,
                   pathsDrawn, bufferFilled, faulted>>
EndSample ==
    /\ pc = "single"
    /\ j > Len(amcCalculators)
    /\ i' = i + 1
    /\ j' = 1
    /\ IF i + 1 < samples
       THEN pc' = "path" /\ progressCounter' = progressCounter
       ELSE pc' = "batched" /\ progressCounter' = progressCounter + 1
    /\ UNCHANGED <<invoked, pathVars, asdVars, jointVars, runVars, sgdVars, mtVars, failure, amcCalculators, tradeId, tradeLabel,
                   effectiveMultiplier, currencyIndex, t0, cube, log, tradeErrors, alog,
                   pathsDrawn, bufferFilled, faulted>>

BatchedLoop(r) ==
    IF ~withCloseOutLag THEN NoLagLoop2(1, r.size)
    ELSE IF withMporStickyDate THEN StickyDateLoop2(0, -1)
    ELSE ActualDateLoop2(1, -1, r.size)

\* one pass of the loop over amcCalculators after the sample loop
ValueBatched ==
    /\ pc = "batched"
    /\ j <= Len(amcCalculators)
    /\ IF iface[amcCalculators[j]] # 2
       THEN /\ j' = j + 1
            /\ UNCHANGED <<pc, failure, t0, cube, log, alog, faulted, progressCounter, invoked>>
       ELSE \E th \in BOOLEAN, thC \in BOOLEAN, ub \in UbOutcomes(j), id \in TradeIdAt(j) :
            LET sticky == withCloseOutLag /\ withMporStickyDate
                r == IF sticky
                     THEN simulatePathInterface2(NumDates, valuationTimes, "val", th)
                     ELSE simulatePathInterface2(NumDates, allTimes, "all", th)
                rLag == simulatePathInterface2(NumDates, closeOutTimes, "cout", thC)
                loop == BatchedLoop(r)
                calls == BatchedCalls(j, id, r, rLag, loop.w)
            IN  /\ thC => sticky
                /\ (th \/ thC) => (~faulted /\ ~(th /\ thC))
                /\ ub = "crash" => (~th /\ ~thC /\ id = 1)
                /\ faulted' = (faulted \/ th \/ thC)
                /\ alog' = IF th \/ thC
                           THEN alog \cup {Substituted(j, -1, IF th THEN r ELSE rLag)}
                           ELSE alog
                /\ invoked' = IF ub = "crash" THEN invoked
                              ELSE invoked \o BatchedInvocations(j)
                /\ IF ub = "crash"
                   THEN /\ pc' = "crashed"
                        /\ UNCHANGED <<failure, t0, cube, log, j, progressCounter>>
                   ELSE IF id > NumIds
                   THEN /\ pc' = "threw"
                        /\ failure' = "cube index"
                        /\ UNCHANGED <<t0, cube, log, j, progressCounter>>
                   ELSE /\ t0' = [t0 EXCEPT ![id] = T0Value(j, r)]
                        /\ cube' = ApplyCalls(cube, calls)
                        /\ log' = log \o <<T0Call(j, id, r, 0)>> \o calls
                        /\ IF loop.err
                           THEN /\ pc' = "threw"
                                /\ failure' = OrderingError
                                /\ UNCHANGED <<j, progressCounter>>
                           ELSE /\ j' = j + 1
                                /\ progressCounter' = progressCounter + 1
                                /\ UNCHANGED <<pc, failure>>
    /\ UNCHANGED <<pathVars, asdVars, jointVars, runVars, sgdVars, mtVars, i, amcCalculators, tradeId, tradeLabel,
                   effectiveMultiplier, currencyIndex, tradeErrors, pathsDrawn,
                   bufferFilled>>

\* runCoreEngine returns, and buildCube after it
Finish ==
    /\ pc = "batched"
    /\ j > Len(amcCalculators)
    /\ pc' = "done"
    /\ UNCHANGED <<invoked, pathVars, asdVars, jointVars, runVars, sgdVars, mtVars, failure, progressCounter, i, j, amcCalculators,
                   tradeId, tradeLabel, effectiveMultiplier, currencyIndex, t0, cube, log,
                   tradeErrors, alog, pathsDrawn, bufferFilled, faulted>>

\* ------------------------------------------------- buildCube(portfolio)
\* Size eff_nThreads = std::min(portfolio->size(), nThreads_)
EffThreads == IF mtSize < nThreads THEN mtSize ELSE nThreads
Workers == 0..(EffThreads - 1)

\* A split that never moves on to the next sub-portfolio: what C13 rules out.
RECURSIVE SplitLoop_FirstOnly(_, _, _)
SplitLoop_FirstOnly(p, portfolioIndex, portfolios) ==
    IF p > mtSize THEN portfolios
    ELSE SplitLoop_FirstOnly(p + 1, portfolioIndex,
                             [portfolios EXCEPT ![portfolioIndex + 1] = @ \cup {p}])

\* The split: the trades, in the iteration order of portfolio->trades() (trade p is
\* the p-th one, counted from 1), are added to portfolios[portfolioIndex], and
\* portfolioIndex goes back to 0 when ++portfolioIndex >= eff_nThreads.
RECURSIVE SplitLoop(_, _, _)
SplitLoop(p, portfolioIndex, portfolios) ==
    IF p > mtSize THEN portfolios
    ELSE SplitLoop(p + 1,
                   IF portfolioIndex + 1 >= EffThreads THEN 0 ELSE portfolioIndex + 1,
                   [portfolios EXCEPT ![portfolioIndex + 1] = @ \cup {p}])

\* portfolios after the split, and the trades of portfolios[w]
Portfolios == SplitLoop(1, 0, [n \in 1..EffThreads |-> {}])
SubPortfolio(w) == Portfolios[w + 1]

WorkerStages == <<"market", "model", "portfolio", "core">>
StageAfter(st) ==
    CASE st = "market" -> "model"
      [] st = "model" -> "portfolio"
      [] st = "portfolio" -> "core"
      [] st = "core" -> "finished"

\* A mini-cube is kept as its trade ids, its number of dates and samples, the trades
\* whose slots have been written, the workers that wrote to it, and whether it is
\* one an earlier call of buildCube has left in miniCubes_.
StaleCube ==
    [ids |-> {}, numDates |-> 0, samples |-> 0, written |-> {}, writers |-> {},
     stale |-> TRUE]

\* cubeFactory_(today_, portfolios[i]->ids(), valuationDates(), nSamples_)
NewMiniCube(ids) ==
    [ids |-> ids, numDates |-> NumValuationDates, samples |-> samples, written |-> {},
     writers |-> {}, stale |-> FALSE]

\* An allocation that keeps the mini-cubes it finds: what C14 rules out.
AllocateMiniCubes_Append(old) ==
    old \o [n \in 1..EffThreads |-> NewMiniCube(SubPortfolio(n - 1))]

\* miniCubes_.clear() and one push_back per sub-portfolio
AllocateMiniCubes(old) ==
    [n \in 1..EffThreads |-> NewMiniCube(SubPortfolio(n - 1))]

\* Requirements that let every call pass: what C19 rules out.
BuildCubeMTChecks_None == "none"

\* The requirements of buildCube(portfolio), in order.  Returns the message of the
\* first one that fails, or "none".
BuildCubeMTChecks ==
    IF ~useMultithreading THEN "engine was constructed for single-threaded runs"
    ELSE IF mtSize = 0 THEN "empty portfolio"
    ELSE IF EffThreads = 0 THEN "effective threads are zero"
    ELSE "none"

PreRunFailuresMT ==
    {"engine was constructed for single-threaded runs", "empty portfolio",
     "effective threads are zero"}

\* the checks, the split, the loaders and the allocation of the mini-cubes, up to
\* the first spawn
BuildCubeMT ==
    /\ mtPc = "start"
    /\ IF BuildCubeMTChecks # "none"
       THEN /\ mtPc' = "threw"
            /\ mtError' = [msg |-> BuildCubeMTChecks, threads |-> {}]
            /\ UNCHANGED <<miniCubes, loaders>>
       ELSE /\ mtPc' = "spawn"
            /\ loaders' = EffThreads
            /\ miniCubes' = AllocateMiniCubes(miniCubes)
            /\ UNCHANGED mtError
    /\ UNCHANGED <<pathVars, asdVars, jointVars, runVars, sgdVars, coreVars, nThreads, mtSize, spawned, joined, examined, wStage,
                   wFault, rc, asd>>

\* std::thread thread(std::move(task), i): worker i starts running its job
Spawn ==
    /\ mtPc = "spawn"
    /\ spawned < EffThreads
    /\ wStage' = [wStage EXCEPT ![spawned + 1] = "market"]
    /\ spawned' = spawned + 1
    /\ mtPc' = IF spawned + 1 = EffThreads THEN "join" ELSE "spawn"
    /\ UNCHANGED <<pathVars, asdVars, jointVars, runVars, sgdVars, coreVars, nThreads, mtSize, joined, examined, wFault, rc,
                   miniCubes, mtError, loaders, asd>>

\* A job whose catch reports success: what C7 rules out.
JobStage_SwallowsFault(st, throws) ==
    IF throws
    THEN [stage |-> "finished", rc |-> 0, fault |-> st, populate |-> FALSE]
    ELSE [stage |-> StageAfter(st), rc |-> IF st = "core" THEN 0 ELSE -1,
          fault |-> "none", populate |-> st = "core"]

\* The result of one stage of worker w's job: the stage returns, or throws a
\* std::exception, which the job's catch turns into rc = 1.
JobStage(st, throws) ==
    IF throws
    THEN [stage |-> "finished", rc |-> 1, fault |-> st, populate |-> FALSE]
    ELSE [stage |-> StageAfter(st), rc |-> IF st = "core" THEN 0 ELSE -1,
          fault |-> "none", populate |-> st = "core"]

\* A job that writes to the first mini-cube whatever its id: what C12 rules out.
CubeOf_First(w) == 0

\* miniCubes_[id]: the cube the job with id w hands to runCoreEngine
CubeOf(w) == w

\* A job that hands asd_ to runCoreEngine whatever its id: what C11 rules out.
AsdSink_All(w) == hasAsd

\* id == 0 ? asd_ : nullptr: whether the job with id w hands an asd object to
\* runCoreEngine
AsdSink(w) == hasAsd /\ w = 0

\* the records of the aggregation scenario data: (valuation date index, sample)
AsdRecords == (0..(NumValuationDates - 1)) \X (0..(samples - 1))

\* One step of the job of worker w: build the market, the model, the portfolio, or
\* run the core loop on its cube.  A core loop that returns has written the slots of
\* all trades of the worker's portfolio and, if it has an asd object, the records of
\* all samples; one that throws has written the slots of some trades (part) and the
\* records of the samples before some sample n.
WorkerStep(w) ==
    /\ wStage[w + 1] \in {"market", "model", "portfolio", "core"}
    /\ \E throws \in BOOLEAN, part \in SUBSET SubPortfolio(w), n \in 0..samples :
          LET st == wStage[w + 1]
              res == JobStage(st, throws)
              partial == throws /\ st = "core"
              wr == IF res.populate THEN SubPortfolio(w) ELSE part
              ns == IF res.populate THEN samples ELSE n
              c == CubeOf(w) + 1
          IN  /\ ~partial => (part = {} /\ n = 0)
              /\ (partial /\ ~AsdSink(w)) => n = 0
              /\ wStage' = [wStage EXCEPT ![w + 1] = res.stage]
              /\ rc' = [rc EXCEPT ![w + 1] = res.rc]
              /\ wFault' = [wFault EXCEPT ![w + 1] = res.fault]
              /\ miniCubes' = IF wr = {}
                              THEN miniCubes
                              ELSE [miniCubes EXCEPT ![c].written = @ \cup wr,
                                                     ![c].writers = @ \cup {w}]
              /\ asd' = IF AsdSink(w)
                        THEN [rec \in DOMAIN asd |->
                                 IF rec[2] < ns THEN asd[rec] \cup {w} ELSE asd[rec]]
                        ELSE asd
    /\ UNCHANGED <<pathVars, asdVars, jointVars, runVars, sgdVars, coreVars, nThreads, mtSize, mtPc, spawned, joined, examined,
                   mtError, loaders>>

\* A join that does not wait for its thread: what C9 rules out.
JoinReady_NoWait(w) == wStage[w + 1] # "unspawned"

\* t.join() for the next thread of jobs: returns once that worker has finished
JoinReady(w) == wStage[w + 1] = "finished"

Join ==
    /\ mtPc = "join"
    /\ joined < EffThreads
    /\ JoinReady(joined)
    /\ joined' = joined + 1
    /\ mtPc' = IF joined + 1 = EffThreads THEN "wait" ELSE "join"
    /\ UNCHANGED <<pathVars, asdVars, jointVars, runVars, sgdVars, coreVars, nThreads, mtSize, spawned, examined, wStage, wFault,
                   rc, miniCubes, mtError, loaders, asd>>

\* results[i].wait() for every i
Wait ==
    /\ mtPc = "wait"
    /\ \A w \in Workers : rc[w + 1] # -1
    /\ mtPc' = "examine"
    /\ UNCHANGED <<pathVars, asdVars, jointVars, runVars, sgdVars, coreVars, nThreads, mtSize, spawned, joined, examined, wStage,
                   wFault, rc, miniCubes, mtError, loaders, asd>>

\* An examination that never fails: what C8 rules out.
ExamineResult_IgnoresCode(w) ==
    [pc |-> IF w + 1 = EffThreads THEN "returned" ELSE "examine",
     error |-> [msg |-> "none", threads |-> {}]]

\* An examination whose message names every worker that failed: what C10 asks for.
ExamineResult_NamesAll(w) ==
    IF rc[w + 1] = 0
    THEN [pc |-> IF w + 1 = EffThreads THEN "returned" ELSE "examine",
          error |-> [msg |-> "none", threads |-> {}]]
    ELSE [pc |-> "threw",
          error |-> [msg |-> "thread exited with return code",
                     threads |-> {v \in Workers : rc[v + 1] = 1}]]

\* What the examination of results[w].get() does: go on, or QL_REQUIRE(rc == 0, ..)
\* fails with a message naming thread w.
ExamineResult(w) ==
    IF rc[w + 1] = 0
    THEN [pc |-> IF w + 1 = EffThreads THEN "returned" ELSE "examine",
          error |-> [msg |-> "none", threads |-> {}]]
    ELSE [pc |-> "threw", error |-> [msg |-> "thread exited with return code", threads |-> {w}]]

Examine ==
    /\ mtPc = "examine"
    /\ examined < EffThreads
    /\ LET res == ExamineResult(examined) IN
          /\ mtPc' = res.pc
          /\ mtError' = res.error
    /\ examined' = examined + 1
    /\ UNCHANGED <<pathVars, asdVars, jointVars, runVars, sgdVars, coreVars, nThreads, mtSize, spawned, joined, wStage, wFault,
                   rc, miniCubes, loaders, asd>>

\* the multi-threaded engine is idle in Spec
InitMTIdle ==
    /\ nThreads = 0
    /\ mtSize = 0
    /\ mtPc = "idle"
    /\ spawned = 0
    /\ joined = 0
    /\ examined = 0
    /\ wStage = <<>>
    /\ wFault = <<>>
    /\ rc = <<>>
    /\ miniCubes = <<>>
    /\ mtError = [msg |-> "none", threads |-> {}]
    /\ loaders = 0
    /\ asd = <<>>

\* a single run: nothing to compare it with
InitRunsIdle ==
    /\ run = "single"
    /\ first = <<>>
    /\ worker = 0
    /\ miniResults = <<>>

\* no joint cube is built
InitJointIdle ==
    /\ cubes_ = <<>>
    /\ joint = [state |-> "none"]
    /\ lastWrite = [kind |-> "none"]

\* no aggregation scenario data is asked for
InitAsdIdle ==
    /\ aggDataIndices = <<>>
    /\ aggDataCurrencies = <<>>
    /\ asdPc = "idle"
    /\ asdIndexName = <<>>
    /\ asdCurrencyCode = <<>>
    /\ asdAlog = {}
    /\ asdLog = <<>>
    /\ filteredPath = <<>>

Init == InitSgd /\ InitCore /\ InitMTIdle /\ InitRunsIdle /\ InitJointIdle /\ InitAsdIdle

Next ==
    \/ Construct
    \/ ConstructMT
    \/ BuildCube
    \/ Extract
    \/ NextPath
    \/ ValueSinglePath
    \/ EndSample
    \/ ValueBatched
    \/ Finish

Spec == Init /\ [][Next]_vars

\* In SpecMT the core loop of each worker is the stage "core" of its job; the single
\* run of Spec is idle.
InitCoreIdle ==
    /\ withCloseOutLag = FALSE
    /\ withMporStickyDate = FALSE
    /\ isValuationDate = <<TRUE>>
    /\ isCloseOutDate = <<FALSE>>
    /\ samples = MaxSamples
    /\ iface = <<>>
    /\ cubeNumIds = 0
    /\ cubeNumDates = 0
    /\ pc = "idle"
    /\ failure = "none"
    /\ progressCounter = 0
    /\ i = 0
    /\ j = 1
    /\ amcCalculators = <<>>
    /\ tradeId = <<>>
    /\ tradeLabel = <<>>
    /\ effectiveMultiplier = <<>>
    /\ currencyIndex = <<>>
    /\ t0 = <<>>
    /\ cube = <<>>
    /\ log = <<>>
    /\ tradeErrors = {}
    /\ alog = {}
    /\ pathsDrawn = 0
    /\ bufferFilled = {}
    /\ faulted = FALSE
    /\ invoked = <<>>

InitMT ==
    /\ InitCoreIdle
    /\ InitRunsIdle
    /\ InitJointIdle
    /\ InitAsdIdle
    /\ nThreads \in 0..MaxThreads
    /\ mtSize \in 0..MaxPortfolio
    /\ seed \in Seeds
    /\ useMultithreading \in BOOLEAN
    /\ hasAsd \in BOOLEAN
    /\ earlierCubes \in {0, 1}
    /\ mtPc = "new"
    /\ spawned = 0
    /\ joined = 0
    /\ examined = 0
    /\ wStage = [n \in 1..EffThreads |-> "unspawned"]
    /\ wFault = [n \in 1..EffThreads |-> "none"]
    /\ rc = [n \in 1..EffThreads |-> -1]
    /\ miniCubes = [n \in 1..earlierCubes |-> StaleCube]
    /\ mtError = [msg |-> "none", threads |-> {}]
    /\ loaders = 0
    /\ asd = [rec \in AsdRecords |-> {}]

NextMT ==
    \/ Construct
    \/ ConstructMT
    \/ BuildCubeMT
    \/ Spawn
    \/ \E w \in Workers : WorkerStep(w)
    \/ Join
    \/ Wait
    \/ Examine

SpecMT == InitMT /\ [][NextMT]_vars

\* ------------------------------------------------ runs on the same inputs
\* SpecRuns: a single-threaded run of a portfolio, followed either by a second
\* single-threaded run into a fresh cube or by the core loops of the workers of a
\* multi-threaded run on the sub-portfolios, each into its mini-cube.  All runs have
\* the same seed, market, model, grid and trades: a trade's extraction ends the same
\* way in every run and its calculator throws on the same samples.  What a read
\* beyond the end of a vector yields is chosen anew in every run.

Range(v) == {v[n] : n \in 1..Len(v)}

\* how the extraction of the trade at position q ended, read off the vectors
OutcomeOf(q) ==
    IF q \in Range(tradeId) THEN "ok"
    ELSE IF q \in Range(currencyIndex) THEN "id"
    ELSE IF q \in Range(effectiveMultiplier) THEN "ccy"
    ELSE IF q \in Range(amcCalculators) THEN "mult"
    ELSE "calc"

\* the trade of the whole portfolio that is at position q of portfolios[w]: the
\* sub-portfolio keeps the order of the portfolio (0: no trade)
TradeAt(w, q) ==
    IF q = 0 THEN 0
    ELSE CHOOSE g \in SubPortfolio(w) : Cardinality({p \in SubPortfolio(w) : p <= g}) = q

\* the trade of the whole portfolio at position q of the portfolio the core loop
\* runs on
TradeOf(q) == IF run = "mt" THEN TradeAt(worker, q) ELSE q

\* the simulatePath calls that threw so far: trade, sample (-1: batched), invocation
Throws == {<<TradeOf(a.calc), a.sample, a.inv>> : a \in alog}

\* the core loop has made the simulatePath call t of the first run: it is beyond
\* the pass for that calculator, or has ended in it
Passed(t) ==
    \E q \in 1..Len(amcCalculators) :
       /\ TradeOf(amcCalculators[q]) = t[1]
       /\ IF t[2] >= 0
          THEN \/ i > t[2]
               \/ (i = t[2] /\ pc = "single" /\ j > q)
               \/ (i = t[2] /\ pc \in {"threw", "crashed"} /\ j >= q)
               \/ pc \in {"batched", "done"}
          ELSE \/ pc = "done"
               \/ (pc = "batched" /\ j > q)
               \/ (i = samples /\ pc \in {"threw", "crashed"} /\ j >= q)

\* the run repeats the first run where the inputs decide: extraction outcomes,
\* calculator interfaces and the simulatePath calls that throw
Replayed ==
    run # "st1" =>
       /\ \A q \in 1..Len(iface) :
             q <= progressCounter =>
                /\ OutcomeOf(q) = first.outcome[TradeOf(q)]
                /\ iface[q] = first.iface[TradeOf(q)]
       /\ Throws \subseteq first.throws
       /\ \A t \in first.throws : Passed(t) => t \in Throws

\* what is kept of the first run
Outcome ==
    [outcome |-> [q \in 1..Len(iface) |-> OutcomeOf(q)], iface |-> iface,
     throws |-> Throws, pc |-> pc, failure |-> failure, t0 |-> t0, cube |-> cube]

\* the locals of runCoreEngine and a fresh cube for a portfolio of n trades
FreshRun(n) ==
    /\ iface' = [q \in 1..n |-> 0]
    /\ cubeNumIds' = n
    /\ failure' = "none"
    /\ progressCounter' = 0
    /\ i' = 0
    /\ j' = 1
    /\ amcCalculators' = <<>>
    /\ tradeId' = <<>>
    /\ tradeLabel' = <<>>
    /\ effectiveMultiplier' = <<>>
    /\ currencyIndex' = <<>>
    /\ t0' = [id \in 1..n |-> Unset]
    /\ cube' = [cell \in (1..n) \X (0..(cubeNumDates - 1)) \X (0..(samples - 1)) \X {0, 1}
                   |-> Unset]
    /\ log' = <<>>
    /\ tradeErrors' = {}
    /\ alog' = {}
    /\ pathsDrawn' = 0
    /\ bufferFilled' = {}
    /\ faulted' = FALSE
    /\ invoked' = <<>>
    /\ UNCHANGED <<withCloseOutLag, withMporStickyDate, isValuationDate, isCloseOutDate,
                   samples, seed, useMultithreading, cubeNumDates, hasAsd, earlierCubes>>

\* buildCube(portfolio, outputCube) is called again with a fresh cube
RunAgain ==
    /\ run = "st1"
    /\ pc \in {"done", "threw", "crashed"}
    /\ run' = "st2"
    /\ first' = Outcome
    /\ pc' = "start"
    /\ FreshRun(PortfolioSize)
    /\ UNCHANGED <<pathVars, asdVars, jointVars, mtVars, worker, miniResults>>

\* buildCube(portfolio) of an engine for k threads on the same inputs: the job of
\* worker 0 enters runCoreEngine with portfolios[0] and miniCubes_[0]
StartWorkers ==
    /\ run = "st1"
    /\ pc \in {"done", "threw", "crashed"}
    /\ run' = "mt"
    /\ first' = Outcome
    /\ \E k \in 1..MaxThreads : nThreads' = k
    /\ mtSize' = PortfolioSize
    /\ worker' = 0
    /\ pc' = "extract"
    /\ FreshRun(Cardinality(SubPortfolio(0)'))
    /\ UNCHANGED <<pathVars, asdVars, jointVars, mtPc, spawned, joined, examined, wStage, wFault, rc,
                   miniCubes, mtError, loaders, asd, miniResults>>

\* the core loop of a worker has ended: its mini-cube is kept and the job of the next
\* worker enters runCoreEngine
NextWorker ==
    /\ run = "mt"
    /\ pc \in {"done", "threw", "crashed"}
    /\ miniResults' = Append(miniResults, [pc |-> pc, t0 |-> t0, cube |-> cube])
    /\ IF worker + 1 < EffThreads
       THEN /\ worker' = worker + 1
            /\ run' = run
            /\ pc' = "extract"
            /\ FreshRun(Cardinality(SubPortfolio(worker + 1)))
       ELSE /\ run' = "merged"
            /\ UNCHANGED <<worker, sgdVars, coreVars>>
    /\ UNCHANGED <<pathVars, asdVars, jointVars, mtVars, first>>

ReplayExtract == Extract /\ Replayed'
ReplayValueSinglePath == ValueSinglePath /\ Replayed'
ReplayValueBatched == ValueBatched /\ Replayed'

InitRuns ==
    /\ InitSgd
    /\ InitCore
    /\ InitMTIdle
    /\ PortfolioSize > 0
    /\ ~useMultithreading
    /\ cubeNumIds = PortfolioSize
    /\ cubeNumDates = NumValuationDates
    /\ run = "st1"
    /\ first = <<>>
    /\ worker = 0
    /\ miniResults = <<>>
    /\ InitJointIdle
    /\ InitAsdIdle

NextRuns ==
    \/ Construct
    \/ BuildCube
    \/ ReplayExtract
    \/ NextPath
    \/ ReplayValueSinglePath
    \/ EndSample
    \/ ReplayValueBatched
    \/ Finish
    \/ RunAgain
    \/ StartWorkers
    \/ NextWorker

SpecRuns == InitRuns /\ [][NextRuns]_vars

\* JointNPVCube over the mini-cubes: an id of the joint cube is held by one mini-cube
\* (the ids of the sub-portfolios are disjoint) and get()/getT0() return that
\* mini-cube's entry.  WorkerOf and LocalId are the joint cube's cubeAndId(id).
WorkerOf(g) == CHOOSE w \in Workers : g \in SubPortfolio(w)
LocalId(g) == Cardinality({p \in SubPortfolio(WorkerOf(g)) : p <= g})

\* a value of the mini-cube of worker w, with its trades named by their position in
\* the whole portfolio
InWholePortfolio(w, val) ==
    IF ~val.w THEN val
    ELSE [val EXCEPT !.calc = TradeAt(w, @), !.ccy = TradeAt(w, @), !.mult = TradeAt(w, @)]

JointGetT0(g) ==
    InWholePortfolio(WorkerOf(g), miniResults[WorkerOf(g) + 1].t0[LocalId(g)])

JointGet(g, d, s, depth) ==
    InWholePortfolio(WorkerOf(g), miniResults[WorkerOf(g) + 1].cube[<<LocalId(g), d, s, depth>>])

\* ================================================================ claims
Terminal == pc \in {"done", "threw", "crashed"}

\* the five per-trade vectors have the same length
Aligned ==
    /\ Len(tradeId) = Len(amcCalculators)
    /\ Len(tradeLabel) = Len(amcCalculators)
    /\ Len(effectiveMultiplier) = Len(amcCalculators)
    /\ Len(currencyIndex) = Len(amcCalculators)

\* the value was computed from trade p's own calculator, currency and multiplier
OwnValue(v, p) == v.w /\ v.calc = p /\ v.ccy = p /\ v.mult = p

CellsOf(p) == {c \in CubeCells : c[1] = p}

\* C1: for the set F of trades whose extraction throws, the run still completes:
\* no slot of a trade in F is ever written, every trade outside F has its T0 slot
\* and all its (valuation date, sample) cells written from its own calculator when
\* the run is done, an error is logged for each trade in F (F is tradeErrors), and
\* neither does the run crash nor does buildCube throw because of the extraction.
C1_PartialFailure ==
    /\ pc # "crashed"
    /\ pc = "threw" => failure \in PreRunFailures \cup {OrderingError}
    /\ \A p \in tradeErrors : ~t0[p].w /\ \A c \in CellsOf(p) : ~cube[c].w
    /\ pc = "done" =>
          \A p \in Trades \ tradeErrors :
             /\ OwnValue(t0[p], p)
             /\ \A c \in CellsOf(p) : c[4] = 0 => OwnValue(cube[c], p)

\* the length a simulatePath that returns has for the invocation of an ALOG entry
SuccessSize(e) ==
    IF iface[e.calc] = 1
    THEN SinglePathResultSize(IF e.inv = "all" THEN PathSize ELSE EffectivePathSize)
    ELSE BatchedResultSize(CASE e.inv = "all" -> allTimes
                             [] e.inv = "val" -> valuationTimes
                             [] e.inv = "cout" -> closeOutTimes)

\* the set or setT0 call takes its value from the invocation ALOG entry e is about
FromInvocation(call, e) ==
    /\ call.val.calc = e.calc
    /\ call.val.inv = e.inv
    /\ e.sample \in {-1, call.sample}

\* every call on the cube that takes its value from an invocation that threw writes
\* zero, and every other call writes the trade's own value
ZeroExactlyWhereThrown ==
    \A n \in DOMAIN log :
        /\ log[n].val.zero <=> \E e \in alog : FromInvocation(log[n], e)
        /\ ~log[n].val.zero => OwnValue(log[n].val, log[n].id)

\* C2: a simulatePath that throws never makes the run fail; its result is replaced
\* by a zero result of the length a successful invocation on the same time subset
\* has; the cells fed by it are written as zero and all others are valued normally.
C2_ZeroSubstitute ==
    Aligned =>
       /\ pc # "crashed"
       /\ pc = "threw" => failure \in PreRunFailures \cup {OrderingError}
       /\ \A e \in alog : e.size = SuccessSize(e)
       /\ ZeroExactlyWhereThrown

ValDatesUpTo(k) == Cardinality({d \in ValuationDates : d <= k})

\* the set calls of calculator j for sample s, in the order they were issued
SetCallsOf(jj, s) ==
    SelectSeq(log, LAMBDA c : c.kind = "set" /\ c.j = jj /\ c.sample = s)

\* calculator j has been valued for sample s
Valued(jj, s) ==
    \E n \in DOMAIN log :
        /\ log[n].kind = "setT0"
        /\ log[n].j = jj
        /\ iface[amcCalculators[jj]] = 2 \/ log[n].sample = s

\* C3: in Lag+ActualDate mode the dates are processed in grid order; the value of a
\* close-out date k is written at depth 1 under the index of the latest valuation
\* date strictly before k, the value of a valuation date k at depth 0 under the
\* index advanced by one, and for a date that is both the depth-1 write comes first.
C3_ActualDateOrder ==
    (withCloseOutLag /\ ~withMporStickyDate) =>
       \A jj \in 1..Len(amcCalculators) : \A s \in 0..(samples - 1) :
          LET calls == SetCallsOf(jj, s) IN
          /\ \A n \in DOMAIN calls :
                LET c == calls[n]
                    k == c.val.at
                IN  /\ c.val.pos = k
                    /\ c.depth = 1 =>
                          /\ isCloseOutDate[k]
                          /\ c.dateIndex = ValDatesUpTo(k - 1) - 1
                          /\ c.dateIndex >= 0
                    /\ c.depth = 0 =>
                          /\ isValuationDate[k]
                          /\ c.dateIndex = ValDatesUpTo(k) - 1
                    /\ \A m \in 1..(n - 1) :
                          \/ calls[m].val.at < k
                          \/ calls[m].val.at = k /\ calls[m].depth = 1 /\ c.depth = 0
          /\ (Valued(jj, s) /\ pc # "threw") =>
                \A d \in 1..NumDates :
                   /\ isCloseOutDate[d] =>
                         \E n \in DOMAIN calls : calls[n].val.at = d /\ calls[n].depth = 1
                   /\ isValuationDate[d] =>
                         \E n \in DOMAIN calls : calls[n].val.at = d /\ calls[n].depth = 0

\* C3 witness: an actual-date run in which, for a date that is both a close-out and
\* a valuation date, the depth-1 write under the old index is followed by the
\* depth-0 write under the advanced index.
C3_Witness ==
    /\ withCloseOutLag /\ ~withMporStickyDate
    /\ pc = "done"
    /\ \E n \in DOMAIN log :
          /\ n + 1 \in DOMAIN log
          /\ log[n].kind = "set" /\ log[n + 1].kind = "set"
          /\ log[n].val.at = log[n + 1].val.at
          /\ log[n].depth = 1 /\ log[n + 1].depth = 0
          /\ log[n + 1].dateIndex = log[n].dateIndex + 1

\* the grid has a close-out date that no valuation date precedes
CloseOutBeforeFirstValuation ==
    \E d \in CloseOutDates : \A v \in ValuationDates : v >= d

\* C4 as stated: a run with a close-out lag on a grid with a close-out date before
\* the first valuation date always fails, it never completes normally.
C4_AlwaysFails ==
    (withCloseOutLag /\ CloseOutBeforeFirstValuation) => pc # "done"

\* C4, amended: with a close-out lag and a close-out date before the first valuation
\* date, a run that values a calculator (writes its T0 slot) fails in that valuation
\* with 'first date in grid must be a valuation date' and writes no depth-1 cell at
\* all; the run completes normally only if no calculator was extracted, and then it
\* writes nothing. In no run is a cell written under a negative date index, and the
\* ordering error is raised for no other grid.
C4_OrderingError ==
    /\ \A n \in DOMAIN log : log[n].dateIndex >= 0
    /\ failure = OrderingError =>
          pc = "threw" /\ withCloseOutLag /\ CloseOutBeforeFirstValuation
    /\ (withCloseOutLag /\ CloseOutBeforeFirstValuation) =>
          /\ \A n \in DOMAIN log : log[n].depth = 0
          /\ \A c \in CubeCells : ~cube[c].w
          /\ log # <<>> => (pc = "threw" /\ failure = OrderingError)
          /\ pc = "done" => (amcCalculators = <<>> /\ log = <<>>)

\* C4 witness: a calculator was valued on such a grid, its T0 slot is written and the
\* run has failed with the ordering error.
C4_Witness ==
    /\ withCloseOutLag /\ CloseOutBeforeFirstValuation
    /\ pc = "threw" /\ failure = OrderingError
    /\ \E n \in DOMAIN log : log[n].kind = "setT0" /\ t0[log[n].id].w

\* C5: without a close-out lag every set() issued by the core loop has depth 0 and
\* every depth-1 slot of the cube keeps its initial value.
C5_NoLagNoDepth1 ==
    ~withCloseOutLag =>
       /\ \A n \in DOMAIN log : log[n].depth = 0
       /\ \A c \in CubeCells : c[4] = 1 => cube[c] = Unset

\* C5 witness: a run without close-out lag on a grid with a single valuation date has
\* completed and has written the depth-0 cells of a trade.
C5_Witness ==
    /\ ~withCloseOutLag
    /\ NumDates = 1
    /\ pc = "done"
    /\ \E c \in CubeCells : c[4] = 0 /\ cube[c].w

\* the (date index, depth) pairs of a sequence of set calls or of loop slots
IndexDepth(q) == [n \in DOMAIN q |-> <<q[n].dateIndex, q[n].depth>>]

\* what the actual-date loop of the interface of calculator j writes for the grid
ActualDateSlots(jj) ==
    IF iface[amcCalculators[jj]] = 1
    THEN ActualDateLoop1(1, -1, PathSize).w
    ELSE ActualDateLoop2(1, -1, PathSize).w

Failed(w) == rc[w + 1] = 1
HasFinished(w) == wStage[w + 1] = "finished"
AfterSpawn == spawned > 0
MinThreadsPortfolio == IF nThreads < mtSize THEN nThreads ELSE mtSize

\* C7: an exception in a worker's job becomes return code 1 of that worker only; it
\* leaves written in that worker's mini-cube at most slots of the worker's own trades
\* (none if it was raised before the core loop) and does not leave the thread
\* (buildCube fails only in its examination of the codes); a worker whose own job
\* does not throw
\* returns 0 with its mini-cube populated, whatever the others do, and all workers
\* have finished when the codes are examined.
C7_WorkerIsolation ==
    /\ \A w \in Workers :
          /\ HasFinished(w) => rc[w + 1] = (IF wFault[w + 1] # "none" THEN 1 ELSE 0)
          /\ ~HasFinished(w) => (rc[w + 1] = -1 /\ wFault[w + 1] = "none")
          /\ (HasFinished(w) /\ wFault[w + 1] # "none") =>
                /\ miniCubes[w + 1].written \subseteq SubPortfolio(w)
                /\ wFault[w + 1] # "core" => miniCubes[w + 1].written = {}
          /\ (HasFinished(w) /\ wFault[w + 1] = "none") =>
                miniCubes[w + 1].written = SubPortfolio(w)
    /\ (mtPc = "threw" /\ AfterSpawn) => examined > 0
    /\ (mtPc \in {"examine", "returned"} \/ (mtPc = "threw" /\ AfterSpawn)) =>
          \A w \in Workers : HasFinished(w)

\* C7 witness: buildCube has failed; one worker threw while rebuilding its model and
\* returned 1, another one returned 0 with its mini-cube populated.
C7_Witness ==
    /\ mtPc = "threw"
    /\ \E w \in Workers : wFault[w + 1] = "model" /\ rc[w + 1] = 1
    /\ \E w \in Workers :
          rc[w + 1] = 0 /\ miniCubes[w + 1].written = SubPortfolio(w)
                        /\ SubPortfolio(w) # {}

\* C8 as stated: whenever buildCube throws, a worker has returned a non-zero code.
C8_ThrowsOnlyForWorker ==
    mtPc = "threw" => \E w \in Workers : Failed(w)

\* C8, amended: buildCube throws either from its checks before any worker is spawned
\* (engine built for single-threaded runs, empty portfolio, zero effective threads)
\* or, after all workers are joined, if and
\* only if at least one worker returned a non-zero code; when every worker returned 0
\* it returns normally with exactly one mini-cube per worker.
C8_ThrowsIffFailedOrChecks ==
    /\ mtPc = "threw" =>
          \/ /\ ~AfterSpawn
             /\ ~useMultithreading \/ mtSize = 0 \/ nThreads = 0
             /\ mtError.msg \in PreRunFailuresMT
             /\ \A n \in DOMAIN miniCubes : miniCubes[n].stale
          \/ /\ joined = EffThreads
             /\ \E w \in Workers : Failed(w)
             /\ mtError.msg = "thread exited with return code"
    /\ mtPc = "returned" =>
          /\ \A w \in Workers : rc[w + 1] = 0
          /\ examined = EffThreads
          /\ Len(miniCubes) = EffThreads
          /\ EffThreads = MinThreadsPortfolio /\ EffThreads > 0
          /\ \A p \in 1..mtSize : \E w \in Workers : p \in miniCubes[w + 1].written
    /\ mtPc = "examine" => \A w \in 0..(examined - 1) : rc[w + 1] = 0

\* C8 witness: a run with several workers has returned normally, every worker having
\* returned 0.
C8_Witness ==
    /\ mtPc = "returned"
    /\ EffThreads >= 2
    /\ \A w \in Workers : rc[w + 1] = 0
    /\ Len(miniCubes) = EffThreads

\* C9: buildCube returns or throws only when every worker it spawned has terminated;
\* a joined worker has terminated and no return code is examined before all workers
\* are joined; the call spawns min(nThreads, portfolio size) workers.
C9_JoinBeforeExamine ==
    /\ spawned <= MinThreadsPortfolio
    /\ mtPc \in {"join", "wait", "examine", "returned"} => spawned = MinThreadsPortfolio
    /\ (mtPc = "threw" /\ AfterSpawn) => spawned = MinThreadsPortfolio
    /\ \A w \in Workers : (w >= spawned) <=> (wStage[w + 1] = "unspawned")
    /\ \A w \in Workers : w < joined => HasFinished(w)
    /\ mtPc \in {"returned", "threw"} => \A w \in Workers : w < spawned => HasFinished(w)
    /\ (examined > 0 \/ mtPc = "examine") => joined = spawned /\ joined = EffThreads

\* C9 witness: a call with more threads than trades has ended after spawning and
\* joining one worker per trade.
C9_Witness ==
    /\ mtPc \in {"returned", "threw"}
    /\ nThreads > mtSize
    /\ spawned = mtSize /\ spawned >= 2
    /\ joined = spawned

FailedWorkers == {w \in Workers : Failed(w)}

AfterAllocation ==
    mtPc \in {"spawn", "join", "wait", "examine", "returned"} \/ (mtPc = "threw" /\ AfterSpawn)

\* C11: in a multi-threaded run only the worker with index 0 runs its core loop with
\* the aggregation scenario data object, so every (valuation date, sample) record is
\* written by no worker other than worker 0, under every interleaving; without an
\* asd object nobody writes, and with one worker 0 writes every record when its core
\* loop returns.
C11_AsdOnlyWorker0 ==
    /\ \A w \in Workers : w # 0 => ~AsdSink(w)
    /\ \A rec \in DOMAIN asd : asd[rec] \subseteq {0}
    /\ ~hasAsd => \A rec \in DOMAIN asd : asd[rec] = {}
    /\ (hasAsd /\ 0 \in Workers /\ HasFinished(0) /\ wFault[1] = "none") =>
          \A rec \in DOMAIN asd : asd[rec] = {0}

\* C11 witness: a run with an asd object and several workers has returned; all
\* workers ran their core loop and every record was written by worker 0 alone.
C11_Witness ==
    /\ hasAsd
    /\ mtPc = "returned"
    /\ EffThreads >= 2
    /\ \A rec \in DOMAIN asd : asd[rec] = {0}
    /\ DOMAIN asd # {}

\* a step of the calling thread in buildCube(portfolio)
CallerStep ==
    mtPc' # mtPc \/ spawned' # spawned \/ joined' # joined \/ examined' # examined

\* C12: worker i writes only to mini-cube i and only slots of its own trades, so no
\* mini-cube is written by two workers, and once a worker is spawned no step of the
\* calling thread changes a mini-cube.
C12_OwnMiniCube ==
    /\ [](\A n \in DOMAIN miniCubes :
             /\ miniCubes[n].writers \subseteq {n - 1}
             /\ miniCubes[n].written \subseteq miniCubes[n].ids)
    /\ [][(CallerStep /\ AfterSpawn) => miniCubes' = miniCubes]_vars

\* C12 witness: a run with several workers has ended with every mini-cube written by
\* its own worker.
C12_Witness ==
    /\ mtPc \in {"returned", "threw"}
    /\ EffThreads >= 3
    /\ \A n \in DOMAIN miniCubes : miniCubes[n].writers = {n - 1}

\* C13: the split is round-robin over eff = min(nThreads, portfolio size) workers:
\* the trade at position p (from 0) of the portfolio is in sub-portfolio p mod eff
\* and in no other, no sub-portfolio is empty and the sizes differ by at most one.
C13_RoundRobin ==
    AfterAllocation =>
       LET portfolios == Portfolios IN
       /\ EffThreads = MinThreadsPortfolio
       /\ Len(portfolios) = EffThreads
       /\ \A p \in 1..mtSize : \A w \in Workers :
             (p \in portfolios[w + 1]) <=> (w = (p - 1) % EffThreads)
       /\ \A w \in Workers : portfolios[w + 1] # {}
       /\ \A w \in Workers : \A v \in Workers :
             Cardinality(portfolios[w + 1]) <= Cardinality(portfolios[v + 1]) + 1
       /\ \A w \in Workers : miniCubes[w + 1].ids = portfolios[w + 1]

\* C13 witness: a portfolio of more trades than threads has been split into
\* sub-portfolios of different sizes.
C13_Witness ==
    /\ AfterAllocation
    /\ EffThreads >= 2
    /\ mtSize > nThreads
    /\ Cardinality(SubPortfolio(0)) = Cardinality(SubPortfolio(EffThreads - 1)) + 1

\* C14: after the allocation the engine holds exactly eff mini-cubes, mini-cube i
\* with the trade ids of sub-portfolio i, the valuation dates of the grid and nSamples
\* samples; none of them is a mini-cube of an earlier call.
C14_MiniCubesAllocated ==
    AfterAllocation =>
       /\ Len(miniCubes) = EffThreads
       /\ loaders = EffThreads
       /\ \A w \in Workers :
             /\ ~miniCubes[w + 1].stale
             /\ miniCubes[w + 1].ids = {p \in 1..mtSize : (p - 1) % EffThreads = w}
             /\ miniCubes[w + 1].numDates = NumValuationDates
             /\ miniCubes[w + 1].samples = samples

\* C14 witness: a call on an engine that holds a mini-cube of an earlier call has
\* allocated its mini-cubes.
C14_Witness ==
    /\ earlierCubes = 1
    /\ mtPc = "spawn"
    /\ spawned = 0
    /\ Len(miniCubes) = EffThreads
    /\ EffThreads >= 2

\* both runs compared have returned normally
BothReturned == first.pc = "done" /\ pc = "done"

\* the per-trade vectors of the first run were aligned: no extraction threw after
\* the calculator was pushed
FirstAligned == \A q \in DOMAIN first.outcome : first.outcome[q] \in {"ok", "calc"}

\* C16: two single-threaded runs with the same seed, market, model, grid and
\* portfolio, each into a fresh cube, end with the same T0 slots and the same cells.
C16_SameCubeContents ==
    (run = "st2" /\ BothReturned) => (t0 = first.t0 /\ cube = first.cube)

\* every worker's core loop has returned normally
AllWorkersReturned ==
    /\ run = "merged"
    /\ \A n \in DOMAIN miniResults : miniResults[n].pc = "done"

\* C15: for every trade, date, sample and depth the value read through the joint
\* cube over the mini-cubes of a multi-threaded run is the value the single-threaded
\* run of the whole portfolio with the same seed has written, for every number of
\* threads.
C15_SameAsSingleThreaded ==
    (AllWorkersReturned /\ first.pc = "done") =>
       \A g \in 1..mtSize :
          /\ JointGetT0(g) = first.t0[g]
          /\ \A d \in 0..(cubeNumDates - 1) : \A s \in 0..(samples - 1) :
                \A depth \in {0, 1} :
                   JointGet(g, d, s, depth) = first.cube[<<g, d, s, depth>>]

\* C17: with an empty portfolio, a cube whose numIds differs from the portfolio size
\* or a cube whose numDates differs from the number of valuation dates, buildCube
\* fails in its checks: no calculator is extracted, no path drawn, no progress
\* reported and no slot of the cube written.
C17_ChecksBeforeCoreLoop ==
    (PortfolioSize = 0 \/ cubeNumIds # PortfolioSize \/ cubeNumDates # NumValuationDates) =>
       /\ pc \in {"new", "noEngine", "start", "threw"}
       /\ pc = "threw" => failure \in PreRunFailures
       /\ pathsDrawn = 0 /\ bufferFilled = {}
       /\ amcCalculators = <<>> /\ tradeErrors = {} /\ progressCounter = 0
       /\ log = <<>>
       /\ \A id \in DOMAIN t0 : t0[id] = Unset
       /\ \A c \in DOMAIN cube : cube[c] = Unset

\* C17 witness: buildCube has failed for a cube that matches the portfolio but not
\* the number of valuation dates of the grid.
C17_Witness ==
    /\ pc = "threw"
    /\ PortfolioSize > 0 /\ cubeNumIds = PortfolioSize
    /\ cubeNumDates # NumValuationDates
    /\ failure = "cube y dimension different from number of valuation dates"

\* C18: with seed 0 neither constructor returns an engine, so buildCube is never
\* entered, no path is drawn and no worker is spawned.
C18_NoEngineWithSeedZero ==
    seed = 0 =>
       /\ pc \in {"idle", "new", "noEngine"}
       /\ mtPc \in {"idle", "new", "noEngine"}
       /\ pathsDrawn = 0
       /\ spawned = 0
       /\ \A n \in DOMAIN wStage : wStage[n] = "unspawned"

\* C18 witness: a constructor has failed on the seed.
C18_Witness ==
    /\ seed = 0
    /\ pc = "noEngine"
    /\ failure = "path generation uses seed 0"

\* C19: when the portfolio is empty or min(portfolio size, nThreads) is zero,
\* buildCube(portfolio) fails in its checks: no loader is cloned, the mini-cubes the
\* engine holds are neither cleared nor added to, and no worker is spawned.
C19_PreRunFailureMT ==
    ((mtSize = 0 \/ MinThreadsPortfolio = 0) /\ mtPc \notin {"new", "noEngine", "start"}) =>
       /\ mtPc = "threw"
       /\ mtError.msg \in PreRunFailuresMT
       /\ loaders = 0
       /\ Len(miniCubes) = earlierCubes
       /\ \A n \in DOMAIN miniCubes : miniCubes[n] = StaleCube
       /\ spawned = 0
       /\ \A n \in DOMAIN wStage : wStage[n] = "unspawned"

\* C19 witness: a call with a non-empty portfolio and zero threads has failed on an
\* engine that holds a mini-cube of an earlier call, which is still there.
C19_Witness ==
    /\ mtPc = "threw"
    /\ mtSize > 0 /\ nThreads = 0
    /\ mtError.msg = "effective threads are zero"
    /\ earlierCubes = 1 /\ Len(miniCubes) = 1

\* C20: a core loop that completes has called the path generator's next() exactly
\* samples times; the n-th call is made for sample n - 1, whatever the trades, their
\* interfaces and the MPOR mode.
C20_OnePathPerSample ==
    /\ bufferFilled = 0..(pathsDrawn - 1)
    /\ pathsDrawn <= samples
    /\ pc = "path" => pathsDrawn = i
    /\ pc = "single" => pathsDrawn = i + 1
    /\ pc \in {"batched", "done"} => pathsDrawn = samples

\* C20 witness: a run with several samples and calculators of both interfaces has
\* completed.
C20_Witness ==
    /\ pc = "done"
    /\ samples = MaxSamples
    /\ pathsDrawn = samples
    /\ \E a \in 1..Len(amcCalculators) : iface[amcCalculators[a]] = 1
    /\ \E b \in 1..Len(amcCalculators) : iface[amcCalculators[b]] = 2

\* the trades whose extraction ran to the end of its try block
Extracted == {p \in Trades : OutcomeOf(p) = "ok"}

\* the setT0 calls issued for cube id p
SetT0Calls(p) == {n \in 1..Len(log) : log[n].kind = "setT0" /\ log[n].id = p}

\* C21: in a core-loop run that returns, the T0 slot of every successfully extracted
\* trade has been written by exactly one setT0 call, for every number of samples.
C21_T0WrittenOnce ==
    pc = "done" => \A p \in Extracted : Cardinality(SetT0Calls(p)) = 1

\* the set calls issued on a cell
SetCalls(cell) == {n \in 1..Len(log) : log[n].kind = "set" /\ CellOf(log[n]) = cell}

\* the cells of date index d that a set call was issued on
WrittenAt(d) == {CellOf(log[n]) : n \in {m \in 1..Len(log) : log[m].kind = "set" /\ log[m].dateIndex = d}}

\* C22: in a run without close-out lag that returns, every depth-0 cell (trade, d,
\* sample) of a successfully extracted trade is written exactly once, the cells
\* written at date index d are samples x (extracted trades) many, and no cell is
\* written at a date index outside 0..(number of grid dates - 1).
C22_NoLagEachCellOnce ==
    (pc = "done" /\ ~withCloseOutLag) =>
       /\ \A p \in Extracted : \A d \in 0..(NumDates - 1) : \A s \in 0..(samples - 1) :
             Cardinality(SetCalls(<<p, d, s, 0>>)) = 1
       /\ \A d \in 0..(NumDates - 1) :
             Cardinality(WrittenAt(d)) = samples * Cardinality(Extracted)
       /\ \A n \in 1..Len(log) :
             log[n].kind = "set" => log[n].dateIndex \in 0..(NumDates - 1)

\* the path result res of trade p for sample s is the zero substitute
ResultZero(p, s) == \E a \in alog : a.calc = p /\ a.sample = s /\ a.inv # "cout"

\* C23: after a run that returns, the T0 slot of every extracted trade with a
\* single-path calculator holds the time-zero entry of that trade's path result,
\* scaled at time zero, and it does so for the path result of every sample.
C23_T0SampleInvariant ==
    pc = "done" =>
       \A p \in Extracted : iface[p] = 1 =>
          \A s \in 0..(samples - 1) :
             /\ t0[p].w
             /\ t0[p].calc = p /\ t0[p].pos = 0
             /\ t0[p].at = 0 /\ t0[p].time = 0
             /\ t0[p].zero = ResultZero(p, s)

\* the valuation date v of the grid is followed by a close-out date before the next
\* valuation date (a date that is both counts as the close-out date of the one before)
FollowedByCloseOut(v) ==
    \E c \in CloseOutDates : c > v /\ \A u \in ValuationDates : ~(v < u /\ u < c)

\* C24: when buildCube returns normally every sample has been processed, and for
\* every successfully extracted trade, sample and valuation date the depth-0 cell is
\* written, and with a close-out lag also the depth-1 cell of every valuation date
\* that is followed by a close-out date.
C24_AllOrFail ==
    pc = "done" =>
       /\ pathsDrawn = samples /\ i = samples
       /\ \A p \in Extracted : \A s \in 0..(samples - 1) : \A v \in ValuationDates :
             LET d == ValDatesUpTo(v) - 1 IN
             /\ cube[<<p, d, s, 0>>].w
             /\ (withCloseOutLag /\ FollowedByCloseOut(v)) => cube[<<p, d, s, 1>>].w

\* C24 witness: a run with close-out lag, several samples and two extracted trades
\* has returned, with a valuation date that is followed by a close-out date and one
\* that is not.
C24_Witness ==
    /\ pc = "done"
    /\ withCloseOutLag
    /\ samples = MaxSamples
    /\ Cardinality(Extracted) = 2
    /\ \E v \in ValuationDates : FollowedByCloseOut(v)
    /\ \E v \in ValuationDates : ~FollowedByCloseOut(v)

\* ------------------------------------------------------------------ JointNPVCube
\* jointnpvcube.hpp declares the class and documents its constructor; the cube is
\* modelled from that documentation
MaxCubes == 2
MaxIds == 2

\* the ids a cube can hold; the order of std::string is the order of the integers
IdNames == 1..MaxIds
\* the ids of an input cube by index: every id once
IdLists ==
    {q \in UNION {[1..n -> IdNames] : n \in 1..MaxIds} :
        \A a, b \in DOMAIN q : a # b => q[a] # q[b]}
\* the date indices of the input cubes
JointDates == 0..(MaxDates - 1)
\* what input cube c holds for its index k before anything is written through the
\* joint cube: a value of its own for every slot
StoredT0(c, k) == (MaxDates + 1) * (MaxIds * c + k)
Stored(c, k, d) == (MaxDates + 1) * (MaxIds * c + k) + d + 1
InputCube(c, q) ==
    [ids |-> q,
     t0 |-> [k \in 1..Len(q) |-> StoredT0(c, k)],
     cell |-> [k \in 1..Len(q) |-> [d \in JointDates |-> Stored(c, k, d)]]]

\* the ids found in the input cubes
Union(cs) == UNION {Range(cs[c].ids) : c \in DOMAIN cs}
HasDuplicates(cs) ==
    \E a, b \in DOMAIN cs : a # b /\ Range(cs[a].ids) \cap Range(cs[b].ids) # {}

\* "If requireUniqueIds is true, there must be no duplicate ids in the input cubes."
JointCtorChecks_NoUnique(cs, requireUniqueIds) == TRUE
JointCtorChecks(cs, requireUniqueIds) == ~(requireUniqueIds /\ HasDuplicates(cs))

\* "the order of the ids in the input cubes define the order in the resulting cube",
\* the cubes taken as they are given; "the first occurence of an id in the cubes
\* defines the order in the result cube"
RECURSIVE InputOrder(_, _)
InputOrder(cs, c) ==
    IF c = 0 THEN <<>>
    ELSE LET before == InputOrder(cs, c - 1)
         IN before \o SelectSeq(cs[c].ids, LAMBDA x : x \notin Range(before))

\* const std::set<std::string>& ids: iterated in the order of std::string
RECURSIVE Sorted(_)
Sorted(S) ==
    IF S = {} THEN <<>>
    ELSE LET m == CHOOSE x \in S : \A y \in S : x <= y
         IN <<m>> \o Sorted(S \ {m})

\* the ids of the joint cube by index; ids = {} stands for "no ids are given"
AllIds_Sorted(cs, ids) == Sorted(IF ids = {} THEN Union(cs) ELSE ids)
AllIds(cs, ids) == IF ids = {} THEN InputOrder(cs, Len(cs)) ELSE Sorted(ids)

\* cubeAndId_ for one id: the input cubes that hold it, each with its index there
CubeAndId_FirstOnly(cs, name) ==
    LET all == {t \in (DOMAIN cs) \X (1..MaxIds) :
                    t[2] \in DOMAIN cs[t[1]].ids /\ cs[t[1]].ids[t[2]] = name}
    IN {t \in all : \A u \in all : t[1] <= u[1]}
CubeAndId(cs, name) ==
    {t \in (DOMAIN cs) \X (1..MaxIds) :
        t[2] \in DOMAIN cs[t[1]].ids /\ cs[t[1]].ids[t[2]] = name}

\* JointNPVCube(cubes, ids, requireUniqueIds)
JointCtor(cs, ids, requireUniqueIds) ==
    IF JointCtorChecks(cs, requireUniqueIds)
    THEN LET all == AllIds(cs, ids)
         IN [state |-> "built", ids |-> ids, requireUniqueIds |-> requireUniqueIds,
             idIdx |-> all,
             cubeAndId |-> [n \in 1..Len(all) |-> CubeAndId(cs, all[n])]]
    ELSE [state |-> "failed", ids |-> ids, requireUniqueIds |-> requireUniqueIds,
          idIdx |-> <<>>, cubeAndId |-> <<>>]

JointNumIds == Len(joint.idIdx)
\* idsAndIndexes(): each id with its index in the joint cube
IdsAndIndexes == {<<joint.idIdx[n], n - 1>> : n \in 1..JointNumIds}

\* "If there is more than one input cube matching the id, the sum over the matching
\* ids is returned"
RECURSIVE SumT0(_)
SumT0(S) ==
    IF S = {} THEN 0
    ELSE LET t == CHOOSE x \in S : TRUE
         IN cubes_[t[1]].t0[t[2]] + SumT0(S \ {t})
RECURSIVE SumCells(_, _)
SumCells(S, d) ==
    IF S = {} THEN 0
    ELSE LET t == CHOOSE x \in S : TRUE
         IN cubes_[t[1]].cell[t[2]][d] + SumCells(S \ {t}, d)
\* getT0(id) and get(id, date, sample, depth) of the joint cube, id its index from 1
JointCubeGetT0(n) == SumT0(joint.cubeAndId[n])
JointCubeGet(n, d) == SumCells(joint.cubeAndId[n], d)

\* "If one id in the result cube corresponds to several input cubes, it is not
\* allowed to call set on this id, this will result in an exception."
SetAllowed_Always(n) == TRUE
SetAllowed(n) == Cardinality(joint.cubeAndId[n]) = 1
\* cubeAndId(id): the input cube and index a write goes to
Target(n) == CHOOSE t \in joint.cubeAndId[n] : TRUE

JointIdle ==
    UNCHANGED <<sgdVars, coreVars, mtVars, runVars, asdVars, pathVars>>

JointConstruct ==
    /\ joint.state = "none"
    /\ \E ids \in {{}} \cup (SUBSET Union(cubes_) \ {{}}) : \E requireUniqueIds \in BOOLEAN :
          joint' = JointCtor(cubes_, ids, requireUniqueIds)
    /\ UNCHANGED <<cubes_, lastWrite>>
    /\ JointIdle

\* setT0(value, id, depth)
JointSetT0 ==
    /\ joint.state = "built"
    /\ lastWrite.kind = "none"
    /\ \E n \in 1..JointNumIds :
          /\ lastWrite' = [kind |-> "setT0", id |-> n, date |-> 0, value |-> -1,
                           threw |-> ~SetAllowed(n)]
          /\ cubes_' = IF SetAllowed(n)
                       THEN [cubes_ EXCEPT ![Target(n)[1]].t0[Target(n)[2]] = -1]
                       ELSE cubes_
    /\ UNCHANGED joint
    /\ JointIdle

\* set(value, id, date, sample, depth)
JointSet ==
    /\ joint.state = "built"
    /\ lastWrite.kind = "none"
    /\ \E n \in 1..JointNumIds : \E d \in JointDates :
          /\ lastWrite' = [kind |-> "set", id |-> n, date |-> d, value |-> -1,
                           threw |-> ~SetAllowed(n)]
          /\ cubes_' = IF SetAllowed(n)
                       THEN [cubes_ EXCEPT ![Target(n)[1]].cell[Target(n)[2]][d] = -1]
                       ELSE cubes_
    /\ UNCHANGED joint
    /\ JointIdle

InitJoint ==
    /\ InitCoreIdle
    /\ InitMTIdle
    /\ InitRunsIdle
    /\ seed = 0
    /\ useMultithreading = FALSE
    /\ hasAsd = FALSE
    /\ earlierCubes = 0
    /\ \E n \in 1..MaxCubes : \E qs \in [1..n -> IdLists] :
          cubes_ = [c \in 1..n |-> InputCube(c, qs[c])]
    /\ joint = [state |-> "none"]
    /\ lastWrite = [kind |-> "none"]
    /\ InitAsdIdle

NextJoint ==
    \/ JointConstruct
    \/ JointSetT0
    \/ JointSet

SpecJoint == InitJoint /\ [][NextJoint]_vars

\* the input cubes that contain the id of index n of the joint cube
Holders(n) == {c \in DOMAIN cubes_ : joint.idIdx[n] \in Range(cubes_[c].ids)}
\* no slot of an input cube has been written
InputsUntouched == cubes_ = [c \in DOMAIN cubes_ |-> InputCube(c, cubes_[c].ids)]

\* C25: set() and setT0() on an id that maps to more than one input cube fail and
\* leave the input cubes as they were; on an id that maps to exactly one input cube
\* they write through, so that get() / getT0() on the same id returns the value
C25_SetOnSharedIdFails ==
    lastWrite.kind # "none" =>
       /\ Cardinality(Holders(lastWrite.id)) > 1 =>
             lastWrite.threw /\ InputsUntouched
       /\ Cardinality(Holders(lastWrite.id)) = 1 =>
             /\ ~lastWrite.threw
             /\ lastWrite.kind = "setT0" => JointCubeGetT0(lastWrite.id) = lastWrite.value
             /\ lastWrite.kind = "set" =>
                   JointCubeGet(lastWrite.id, lastWrite.date) = lastWrite.value

C25_Witness ==
    /\ lastWrite.kind = "set"
    /\ lastWrite.threw
    /\ Cardinality(Holders(lastWrite.id)) = MaxCubes
    /\ \E n \in 1..JointNumIds : Cardinality(Holders(n)) = 1

\* the entry of id name at date d summed over the first c input cubes
RECURSIVE SumOfCubes(_, _, _)
SumOfCubes(name, d, c) ==
    IF c = 0 THEN 0
    ELSE SumOfCubes(name, d, c - 1)
         + (IF name \in Range(cubes_[c].ids)
            THEN cubes_[c].cell[CHOOSE k \in DOMAIN cubes_[c].ids : cubes_[c].ids[k] = name][d]
            ELSE 0)

\* C26: built with requireUniqueIds == false, get() on an id returns the sum of the
\* entries of all input cubes that contain the id
C26_GetSumsDuplicates ==
    (joint.state = "built" /\ ~joint.requireUniqueIds) =>
       \A n \in 1..JointNumIds : \A d \in JointDates :
          JointCubeGet(n, d) = SumOfCubes(joint.idIdx[n], d, Len(cubes_))

C26_Witness ==
    /\ joint.state = "built"
    /\ ~joint.requireUniqueIds
    /\ \E n \in 1..JointNumIds : Cardinality(Holders(n)) = MaxCubes
    /\ \E n \in 1..JointNumIds : Cardinality(Holders(n)) = 1

\* C27: with requireUniqueIds == true the construction fails whenever an id occurs
\* in two input cubes; a joint cube so built maps each id to exactly one input cube
\* and accepts set() and setT0() on every id
C27_UniqueIdsRequired ==
    /\ (joint.state # "none" /\ joint.requireUniqueIds
        /\ \E a, b \in DOMAIN cubes_ : \E name \in IdNames :
              a < b /\ name \in Range(cubes_[a].ids) /\ name \in Range(cubes_[b].ids))
          => joint.state = "failed"
    /\ (joint.state = "built" /\ joint.requireUniqueIds) =>
          /\ \A n \in 1..JointNumIds : Cardinality(Holders(n)) = 1
          /\ lastWrite.kind # "none" => ~lastWrite.threw

C27_Witness ==
    /\ joint.state = "failed"
    /\ joint.requireUniqueIds
    /\ Len(cubes_) = MaxCubes

\* the ids of the first c input cubes one after the other, duplicates kept
RECURSIVE FlatIds(_)
FlatIds(c) == IF c = 0 THEN <<>> ELSE FlatIds(c - 1) \o cubes_[c].ids
FirstAt(name) ==
    CHOOSE p \in 1..Len(FlatIds(Len(cubes_))) :
       /\ FlatIds(Len(cubes_))[p] = name
       /\ \A r \in 1..(p - 1) : FlatIds(Len(cubes_))[r] # name

\* C28: built without an explicit id set, idsAndIndexes() holds every id of every
\* input cube exactly once, numIds() is the number of distinct ids, and the indices
\* follow the ids of the input cubes in the order the cubes were given, a duplicate
\* id standing at its first occurrence
C28_IdsFollowInputOrder ==
    (joint.state = "built" /\ joint.ids = {}) =>
       /\ \A c \in DOMAIN cubes_ : \A name \in Range(cubes_[c].ids) :
             Cardinality({e \in IdsAndIndexes : e[1] = name}) = 1
       /\ \A e \in IdsAndIndexes : \E c \in DOMAIN cubes_ : e[1] \in Range(cubes_[c].ids)
       /\ JointNumIds = Cardinality({name \in IdNames :
                                        \E c \in DOMAIN cubes_ : name \in Range(cubes_[c].ids)})
       /\ \A e \in IdsAndIndexes : e[2] \in 0..(JointNumIds - 1)
       /\ \A e, f \in IdsAndIndexes : e[2] < f[2] <=> FirstAt(e[1]) < FirstAt(f[1])

C28_Witness ==
    /\ joint.state = "built"
    /\ joint.ids = {}
    /\ Len(cubes_) = MaxCubes
    /\ \E n \in 1..JointNumIds : Cardinality(Holders(n)) > 1
    /\ \E e, f \in IdsAndIndexes : e[2] < f[2] /\ e[1] > f[1]

\* the loop over the trades of the portfolio has ended
ExtractionDone ==
    /\ pc \in {"path", "single", "batched", "done", "threw", "crashed"}
    /\ progressCounter >= PortfolioSize

\* C29: after the extraction the five per-trade vectors have the same length and
\* entry n of each of them belongs to the same trade, whichever step of the
\* extraction of a trade throws
C29_VectorsAligned ==
    ExtractionDone =>
       /\ Aligned
       /\ \A n \in 1..Len(amcCalculators) :
             /\ tradeId[n] = amcCalculators[n]
             /\ tradeLabel[n] = amcCalculators[n]
             /\ effectiveMultiplier[n] = amcCalculators[n]
             /\ currencyIndex[n] = amcCalculators[n]

\* the calls issued for calculators of the batched interface
BatchedCallsLogged == {n \in 1..Len(log) : iface[amcCalculators[log[n].j]] = 2}

\* C30: a calculator of the batched interface is invoked only after the loop over
\* the samples has ended: the buffers it reads hold every sample
C30_BatchedAfterAllSamples ==
    (pc = "batched" \/ BatchedCallsLogged # {} \/ \E a \in alog : a.sample = -1) =>
       /\ i = samples
       /\ pathsDrawn = samples
       /\ bufferFilled = 0..(samples - 1)

C30_Witness ==
    /\ samples = MaxSamples
    /\ Cardinality(BatchedCallsLogged) > 1
    /\ \E p \in Trades : iface[p] = 1 /\ OutcomeOf(p) = "ok"

\* the positions in amcCalculators of the calculators of the batched interface
BatchedPositions == {jj \in 1..Len(amcCalculators) : iface[amcCalculators[jj]] = 2}
\* the invocations made for position jj on the times inv
InvocationsOf(jj, inv) == {n \in 1..Len(invoked) : invoked[n].j = jj /\ invoked[n].inv = inv}

\* C31 as stated: a calculator of the batched interface is invoked once per trade
\* per run, in every MPOR mode
C31_OncePerTrade ==
    pc = "done" =>
       \A jj \in BatchedPositions :
          Cardinality({n \in 1..Len(invoked) : invoked[n].j = jj}) = 1

\* C31 as amended: a calculator of the batched interface is invoked once per trade
\* per run without close-out lag and in actual date mode, and twice per trade per
\* run in sticky date mode (once on the valuation times, once on the close-out
\* times); never once per sample
C31_OncePerTradeAndTimeSet ==
    /\ \A jj \in BatchedPositions : \A inv \in {"all", "val", "cout"} :
          Cardinality(InvocationsOf(jj, inv)) <= 1
    /\ pc = "done" =>
          \A jj \in BatchedPositions : \A inv \in {"all", "val", "cout"} :
             Cardinality(InvocationsOf(jj, inv)) =
                IF (withCloseOutLag /\ withMporStickyDate) <=> (inv # "all") THEN 1 ELSE 0

C31_Witness ==
    /\ pc = "done"
    /\ withCloseOutLag
    /\ withMporStickyDate
    /\ samples = MaxSamples
    /\ Cardinality(BatchedPositions) = MaxTrades

\* the positions in amcCalculators of the calculators of the single-path interface
SinglePathPositions == {jj \in 1..Len(amcCalculators) : iface[amcCalculators[jj]] = 1}
InvocationsFor(jj, s) == {n \in 1..Len(invoked) : invoked[n].j = jj /\ invoked[n].sample = s}

\* C32: in sticky date mode a single-path calculator is invoked exactly twice for
\* each sample: first on the path of the valuation dates with reuseLastEvents false,
\* then on the path of the close-out dates with reuseLastEvents true; the depth-0
\* cells take their values from the first result only and the depth-1 cells from
\* the second only
C32_StickyTwoInvocations ==
    /\ []((withCloseOutLag /\ withMporStickyDate) =>
            \A jj \in SinglePathPositions : \A s \in 0..(samples - 1) :
               \/ InvocationsFor(jj, s) = {} /\ pc # "done"
               \/ \E n \in 1..(Len(invoked) - 1) :
                     /\ InvocationsFor(jj, s) = {n, n + 1}
                     /\ invoked[n].inv = "val" /\ ~invoked[n].flag
                     /\ invoked[n + 1].inv = "cout" /\ invoked[n + 1].flag)
    /\ [][(withCloseOutLag /\ withMporStickyDate) =>
            \A n \in (Len(log) + 1)..Len(log') :
               (log'[n].kind = "set" /\ log'[n].j \in SinglePathPositions') =>
                  /\ log'[n].depth = 0 => log'[n].val.inv = "val"
                  /\ log'[n].depth = 1 => log'[n].val.inv = "cout"
                  /\ log'[n].val.calc = amcCalculators'[log'[n].j]
                  /\ log'[n].val.sample = log'[n].sample]_vars

C32_Witness ==
    /\ pc = "done"
    /\ withCloseOutLag
    /\ withMporStickyDate
    /\ samples = MaxSamples
    /\ Cardinality(SinglePathPositions) = MaxTrades
    /\ \E n \in 1..Len(log) : log[n].kind = "set" /\ log[n].depth = 1

\* the currency indices of the model: the base currency and the others
CcyIndices == 0..MaxTrades

\* C33: in every MPOR mode and for both interfaces a depth-0 cell is the raw value
\* times fx times numRatio (1 for the base currency) times the effective multiplier
\* and a depth-1 cell the raw value times fx times the un-ratioed numeraire of the
\* trade currency (num) times the effective multiplier; fx and state are read at
\* the grid index of the date being written and at the sample being written
C33_ScaleFactors ==
    [][\A n \in (Len(log) + 1)..Len(log') :
       log'[n].kind = "set" =>
          LET c == log'[n]
              v == c.val
          IN  /\ v.calc = amcCalculators'[c.j]
              /\ c.j <= Len(currencyIndex') => v.ccy = currencyIndex'[c.j]
              /\ c.j <= Len(effectiveMultiplier') => v.mult = effectiveMultiplier'[c.j]
              /\ v.at \in 1..NumDates
              /\ c.depth = 0 =>
                    /\ isValuationDate[v.at]
                    /\ c.dateIndex = ValDatesUpTo(v.at) - 1
              /\ c.depth = 1 =>
                    /\ isCloseOutDate[v.at]
                    /\ c.dateIndex = ValDatesUpTo(v.at - 1) - 1
              /\ \A ccy \in CcyIndices :
                    LET sc == ScaleOf(v, ccy)
                        st == [buffer |-> "ir", factor |-> ccy, at |-> v.at, sample |-> c.sample]
                        own == [numeraire |-> ccy, time |-> v.time, st |-> st]
                    IN  /\ sc.fx = IF ccy = 0 THEN <<[const |-> "1.0"]>>
                                   ELSE <<[buffer |-> "fx", factor |-> ccy - 1, at |-> v.at,
                                           sample |-> c.sample]>>
                        /\ c.depth = 0 =>
                              /\ ccy = 0 => sc.numeraire = [over |-> <<[const |-> "1.0"]>>, under |-> <<>>]
                              /\ ccy # 0 =>
                                    /\ sc.numeraire.over = <<own>>
                                    /\ Len(sc.numeraire.under) = 1
                                    /\ sc.numeraire.under[1].numeraire = 0
                                    /\ sc.numeraire.under[1].st.at = v.at
                                    /\ sc.numeraire.under[1].st.sample = c.sample
                        /\ c.depth = 1 => sc.numeraire = [over |-> <<own>>, under |-> <<>>]
    ]_vars

C33_Witness ==
    /\ pc = "done"
    /\ withCloseOutLag
    /\ withMporStickyDate
    /\ samples = MaxSamples
    /\ BatchedPositions # {}
    /\ SinglePathPositions # {}
    /\ \E n \in 1..Len(log) : log[n].kind = "set" /\ log[n].depth = 1 /\ log[n].sample > 0

\* the set calls issued for position jj, in order
SetCallsAt(jj) == SelectSeq(log, LAMBDA c : c.kind = "set" /\ c.j = jj)

\* C34: on a grid whose first date is a valuation date, in every MPOR mode, every
\* cube write of the core loop uses a date index d with 0 <= d < number of valuation
\* dates, and when the last grid date has been processed for a trade the date index
\* is the number of valuation dates minus one
C34_DateIndexRange ==
    /\ [][isValuationDate[1] =>
            \A n \in (Len(log) + 1)..Len(log') :
               log'[n].kind = "set" => log'[n].dateIndex \in 0..(NumValuationDates - 1)]_vars
    /\ []((isValuationDate[1] /\ pc = "done") =>
            /\ \A jj \in SinglePathPositions : \A s \in 0..(samples - 1) :
                  /\ SetCallsOf(jj, s) # <<>>
                  /\ SetCallsOf(jj, s)[Len(SetCallsOf(jj, s))].dateIndex = NumValuationDates - 1
            /\ \A jj \in BatchedPositions :
                  /\ SetCallsAt(jj) # <<>>
                  /\ SetCallsAt(jj)[Len(SetCallsAt(jj))].dateIndex = NumValuationDates - 1)

C34_Witness ==
    /\ pc = "done"
    /\ withCloseOutLag
    /\ ~withMporStickyDate
    /\ NumDates = MaxDates
    /\ isValuationDate[1]
    /\ NumValuationDates < NumDates
    /\ BatchedPositions # {}
    /\ SinglePathPositions # {}

\* C35: the fx and ir state buffers are written once per sample, in pass i of the
\* sample loop for sample i, and every read of a buffer entry by a cube write
\* (setT0, which reads grid time 0 of sample 0, included) comes after the entry was
\* written in the same run
C35_BuffersWrittenBeforeRead ==
    [][/\ pc = "path" => (i \notin bufferFilled /\ bufferFilled' = bufferFilled \cup {i})
       /\ pc # "path" => bufferFilled' = bufferFilled
       /\ \A n \in (Len(log) + 1)..Len(log') :
             /\ log'[n].val.sample \in bufferFilled
             /\ log'[n].val.at \in 0..NumDates]_vars

C35_Witness ==
    /\ pc = "done"
    /\ samples = MaxSamples
    /\ bufferFilled = 0..(samples - 1)
    /\ BatchedPositions # {}
    /\ SinglePathPositions # {}
    /\ Len(log) > samples

\* ------------------------------------------------- aggregation scenario data
\* The statements of runCoreEngine that collect the information for asd and write
\* asd in the sample loop.  aggDataIndices[n] tells whether market->iborIndex finds
\* the n-th configured index; an index and a currency are named by their position.
MaxAsd == 2

\* one call of asd->set: date index, sample, type and key, and the grid index k read
AsdRecord(dateIndex, sample, type, key, k) ==
    [dateIndex |-> dateIndex, sample |-> sample, type |-> type, key |-> key, k |-> k]

\* the body of the loop over the grid times for one valuation date
AsdRecordsAt(dateIndex, s, k) ==
    <<AsdRecord(dateIndex, s, "Numeraire", 0, k)>>
    \o [n \in 1..Len(asdCurrencyCode) |-> AsdRecord(dateIndex, s, "FXSpot", asdCurrencyCode[n], k)]
    \o [n \in 1..Len(asdIndexName) |->
           AsdRecord(dateIndex, s, "IndexFixing", asdIndexName[n].name, k)]

\* A loop that writes under the index of the grid date: what C37 rules out.
RECURSIVE AsdDateLoop_GridIndex(_, _, _)
AsdDateLoop_GridIndex(k, dateIndex, s) ==
    IF k > NumDates THEN <<>>
    ELSE IF ~isValuationDate[k] THEN AsdDateLoop_GridIndex(k + 1, dateIndex + 1, s)
    ELSE AsdRecordsAt(dateIndex, s, k) \o AsdDateLoop_GridIndex(k + 1, dateIndex + 1, s)

\* for (k = 1; k < timeGrid().size(); ++k): "only write asd on valuation dates"
RECURSIVE AsdDateLoop(_, _, _)
AsdDateLoop(k, dateIndex, s) ==
    IF k > NumDates THEN <<>>
    ELSE IF ~isValuationDate[k] THEN AsdDateLoop(k + 1, dateIndex, s)
    ELSE AsdRecordsAt(dateIndex, s, k) \o AsdDateLoop(k + 1, dateIndex + 1, s)

\* tmp->currency() on the null pointer left by the caught failure of
\* market->iborIndex: the run is killed, or goes on with an indeterminate index
NullIndexOutcomes == {"crash", "garbage"}
\* the use of the entries of asdIndex in the sample loop
AsdUbOutcomes ==
    IF \E n \in 1..Len(asdIndexName) : ~asdIndexName[n].found
    THEN NullIndexOutcomes ELSE {"none"}
\* the calls made before the first use of an indeterminate entry
RECURSIVE UntilIndeterminate(_)
UntilIndeterminate(recs) ==
    IF recs = <<>> THEN <<>>
    ELSE IF Head(recs).type = "IndexFixing" /\ ~aggDataIndices[Head(recs).key] THEN <<>>
    ELSE <<Head(recs)>> \o UntilIndeterminate(Tail(recs))

AsdIdle ==
    UNCHANGED <<sgdVars, mtVars, runVars, jointVars, pathVars, pc, failure, progressCounter,
                amcCalculators, tradeId, tradeLabel, effectiveMultiplier, currencyIndex,
                t0, cube, log, tradeErrors, alog, pathsDrawn, bufferFilled, faulted, invoked>>

\* the loop over aggDataCurrencies: the base currency is left out
AsdCollectCurrencies ==
    /\ asdPc = "currencies"
    /\ asdCurrencyCode' =
          SelectSeq([n \in 1..Len(aggDataCurrencies) |-> n],
                    LAMBDA n : aggDataCurrencies[n] # "base")
    /\ asdPc' = "indices"
    /\ UNCHANGED <<aggDataIndices, aggDataCurrencies, asdIndexName, asdAlog, asdLog, i, j>>
    /\ AsdIdle

\* one pass of the loop over aggDataIndices
AsdCollectIndex ==
    /\ asdPc = "indices"
    /\ j <= Len(aggDataIndices)
    /\ IF aggDataIndices[j]
       THEN /\ asdIndexName' = Append(asdIndexName, [name |-> j, found |-> TRUE])
            /\ j' = j + 1
            /\ UNCHANGED <<asdPc, asdAlog>>
       ELSE /\ asdAlog' = asdAlog \cup {j}
            /\ \E ub \in NullIndexOutcomes :
                  IF ub = "crash"
                  THEN /\ asdPc' = "crashed"
                       /\ UNCHANGED <<asdIndexName, j>>
                  ELSE /\ asdIndexName' = Append(asdIndexName, [name |-> j, found |-> FALSE])
                       /\ j' = j + 1
                       /\ UNCHANGED asdPc
    /\ UNCHANGED <<aggDataIndices, aggDataCurrencies, asdCurrencyCode, asdLog, i>>
    /\ AsdIdle

\* the information is collected: the sample loop starts
AsdStartSamples ==
    /\ asdPc = "indices"
    /\ j > Len(aggDataIndices)
    /\ asdPc' = "samples"
    /\ i' = 0
    /\ UNCHANGED <<aggDataIndices, aggDataCurrencies, asdIndexName, asdCurrencyCode, asdAlog,
                   asdLog, j>>
    /\ AsdIdle

\* the asd block of pass i of the sample loop
AsdWriteSample ==
    /\ asdPc = "samples"
    /\ i < samples
    /\ \E ub \in AsdUbOutcomes :
          IF ub = "crash" /\ UntilIndeterminate(AsdDateLoop(1, 0, i)) # AsdDateLoop(1, 0, i)
          THEN /\ asdLog' = asdLog \o UntilIndeterminate(AsdDateLoop(1, 0, i))
               /\ asdPc' = "crashed"
               /\ i' = i
          ELSE /\ asdLog' = asdLog \o AsdDateLoop(1, 0, i)
               /\ i' = i + 1
               /\ asdPc' = IF i + 1 = samples THEN "done" ELSE "samples"
    /\ UNCHANGED <<aggDataIndices, aggDataCurrencies, asdIndexName, asdCurrencyCode, asdAlog, j>>
    /\ AsdIdle

\* the valuation of pass i throws before the asd block is reached
AsdAbort ==
    /\ asdPc = "samples"
    /\ i < samples
    /\ asdPc' = "threw"
    /\ UNCHANGED <<aggDataIndices, aggDataCurrencies, asdIndexName, asdCurrencyCode, asdAlog,
                   asdLog, i, j>>
    /\ AsdIdle

InitAsd ==
    /\ InitSgd
    /\ InitMTIdle
    /\ InitRunsIdle
    /\ InitJointIdle
    /\ iface = <<>>
    /\ seed = 42
    /\ useMultithreading = FALSE
    /\ cubeNumIds = 0
    /\ cubeNumDates = NumValuationDates
    /\ hasAsd = TRUE
    /\ earlierCubes = 0
    /\ pc = "idle"
    /\ failure = "none"
    /\ progressCounter = 0
    /\ i = 0
    /\ j = 1
    /\ amcCalculators = <<>>
    /\ tradeId = <<>>
    /\ tradeLabel = <<>>
    /\ effectiveMultiplier = <<>>
    /\ currencyIndex = <<>>
    /\ t0 = <<>>
    /\ cube = <<>>
    /\ log = <<>>
    /\ tradeErrors = {}
    /\ alog = {}
    /\ pathsDrawn = 0
    /\ bufferFilled = {}
    /\ faulted = FALSE
    /\ invoked = <<>>
    /\ \E n \in 0..MaxAsd : aggDataIndices \in [1..n -> BOOLEAN]
    /\ \E n \in 0..MaxAsd : aggDataCurrencies \in [1..n -> {"base", "other"}]
    /\ asdPc = "currencies"
    /\ asdIndexName = <<>>
    /\ asdCurrencyCode = <<>>
    /\ asdAlog = {}
    /\ asdLog = <<>>
    /\ filteredPath = <<>>

NextAsd ==
    \/ AsdCollectCurrencies
    \/ AsdCollectIndex
    \/ AsdStartSamples
    \/ AsdWriteSample
    \/ AsdAbort

SpecAsd == InitAsd /\ [][NextAsd]_vars

\* asd holds a record of the type and key for every valuation date of every sample
RecordedThroughout(type, key) ==
    \A s \in 0..(samples - 1) : \A d \in 0..(NumValuationDates - 1) :
       \E n \in 1..Len(asdLog) :
          /\ asdLog[n].type = type /\ asdLog[n].key = key
          /\ asdLog[n].sample = s /\ asdLog[n].dateIndex = d

\* C36: with aggregation scenario data requested, a configured index that is not
\* found in the market is skipped: no fixing is recorded for it, the other configured
\* indices and the currencies are still recorded, and the run goes on without failing
C36_MissingIndexSkipped ==
    /\ asdPc # "crashed"
    /\ \A n \in 1..Len(aggDataIndices) :
          ~aggDataIndices[n] =>
             /\ \A e \in 1..Len(asdIndexName) : asdIndexName[e].name # n
             /\ \A r \in 1..Len(asdLog) :
                   ~(asdLog[r].type = "IndexFixing" /\ asdLog[r].key = n)
    /\ asdPc = "done" =>
          /\ \A n \in 1..Len(aggDataIndices) :
                aggDataIndices[n] => RecordedThroughout("IndexFixing", n)
          /\ \A n \in 1..Len(aggDataCurrencies) :
                aggDataCurrencies[n] # "base" => RecordedThroughout("FXSpot", n)

\* the numeraire records of sample s, in the order they were written
NumeraireRecords(s) ==
    SelectSeq(asdLog, LAMBDA r : r.type = "Numeraire" /\ r.sample = s)
\* the n-th valuation date of the grid
NthValuationDate(n) == CHOOSE k \in ValuationDates : ValDatesUpTo(k) = n

\* C37: with aggregation scenario output requested the core loop writes, for each
\* sample, exactly one numeraire record per valuation date, under the date indices
\* 0, 1, .., number of valuation dates - 1 in grid order, and nothing for grid dates
\* that are not valuation dates, in every MPOR mode
C37_OneNumerairePerValuationDate ==
    /\ \A r \in 1..Len(asdLog) : isValuationDate[asdLog[r].k]
    /\ \A s \in 0..(samples - 1) :
          (s < i \/ asdPc = "done") =>
             /\ Len(NumeraireRecords(s)) = NumValuationDates
             /\ \A n \in 1..NumValuationDates :
                   /\ NumeraireRecords(s)[n].dateIndex = n - 1
                   /\ NumeraireRecords(s)[n].k = NthValuationDate(n)

C37_Witness ==
    /\ asdPc = "done"
    /\ samples = MaxSamples
    /\ withCloseOutLag
    /\ ~isValuationDate[1]
    /\ NumValuationDates > 0
    /\ Len(asdIndexName) = MaxAsd
    /\ asdCurrencyCode # <<>>

\* C38: in every updateProgress(done, total) call of one run of the core loop total
\* is portfolio size + 1, done never decreases from one call to the next, and done
\* never exceeds total, for any mix of single-path and batched trades
C38_ProgressWithinTotal ==
    /\ [][progressCounter' >= progressCounter]_vars
    /\ [](progressCounter <= PortfolioSize + 1)

\* --------------------------------------------------- effectiveSimulationPath
\* the path of sample s: entry n holds the state at grid index n - 1 (0: time zero)
PathOf(s) == [n \in 1..PathSize |-> [sample |-> s, k |-> n - 1]]

\* A loop that copies every entry of the path: what C39 rules out.
RECURSIVE FilterLoop_KeepsAll(_, _, _, _, _)
FilterLoop_KeepsAll(p, processCloseOutDates, ii, filteredTimeIndex, acc) ==
    IF ii >= Len(p) THEN acc
    ELSE FilterLoop_KeepsAll(p, processCloseOutDates, ii + 1, filteredTimeIndex + 1,
            IF filteredTimeIndex < Len(acc.path)
            THEN [acc EXCEPT !.path[filteredTimeIndex + 1] = p[ii + 1]]
            ELSE [acc EXCEPT !.beyond = TRUE])

\* for (Size i = 0; i < p.pathSize(); ++i): acc.path is filteredPath, acc.beyond
\* tells whether an entry past its end was written
RECURSIVE FilterLoop(_, _, _, _, _)
FilterLoop(p, processCloseOutDates, ii, filteredTimeIndex, acc) ==
    IF ii >= Len(p) THEN acc
    ELSE IF ii = 0 \/ (ii > 0 /\ IF processCloseOutDates THEN isCloseOutDate[ii]
                                 ELSE isValuationDate[ii])
    THEN FilterLoop(p, processCloseOutDates, ii + 1, filteredTimeIndex + 1,
            IF filteredTimeIndex < Len(acc.path)
            THEN [acc EXCEPT !.path[filteredTimeIndex + 1] = p[ii + 1]]
            ELSE [acc EXCEPT !.beyond = TRUE])
    ELSE FilterLoop(p, processCloseOutDates, ii + 1, filteredTimeIndex, acc)

effectiveSimulationPath(p, processCloseOutDates) ==
    IF ~(withCloseOutLag /\ withMporStickyDate)
    THEN [failed |-> TRUE, path |-> <<>>, beyond |-> FALSE]
    ELSE FilterLoop(p, processCloseOutDates, 0, 0,
                    [failed |-> FALSE,
                     path |-> [m \in 1..ValuationPathSize |-> [sample |-> -1, k |-> -1]],
                     beyond |-> FALSE])

\* effectiveSimulationPath is called on the path of a sample
CallEffectiveSimulationPath ==
    /\ \E s \in 0..(samples - 1), processCloseOutDates \in BOOLEAN :
          filteredPath' = [sample |-> s, processCloseOutDates |-> processCloseOutDates,
                           result |-> effectiveSimulationPath(PathOf(s), processCloseOutDates)]
    /\ UNCHANGED <<sgdVars, coreVars, mtVars, runVars, jointVars, asdVars>>

InitPath ==
    /\ InitSgd
    /\ InitMTIdle
    /\ InitRunsIdle
    /\ InitJointIdle
    /\ InitAsdIdle
    /\ iface = <<>>
    /\ seed = 42
    /\ useMultithreading = FALSE
    /\ cubeNumIds = 0
    /\ cubeNumDates = NumValuationDates
    /\ hasAsd = FALSE
    /\ earlierCubes = 0
    /\ pc = "idle"
    /\ failure = "none"
    /\ progressCounter = 0
    /\ i = 0
    /\ j = 1
    /\ amcCalculators = <<>>
    /\ tradeId = <<>>
    /\ tradeLabel = <<>>
    /\ effectiveMultiplier = <<>>
    /\ currencyIndex = <<>>
    /\ t0 = <<>>
    /\ cube = <<>>
    /\ log = <<>>
    /\ tradeErrors = {}
    /\ alog = {}
    /\ pathsDrawn = 0
    /\ bufferFilled = {}
    /\ faulted = FALSE
    /\ invoked = <<>>

SpecPath == InitPath /\ [][CallEffectiveSimulationPath]_vars

NthCloseOutDate(m) ==
    CHOOSE k \in CloseOutDates : Cardinality({c \in CloseOutDates : c <= k}) = m

SinglePathDone == IF pc \in {"batched", "done"} THEN SinglePathPositions ELSE {}
BatchedDone ==
    {jj \in BatchedPositions : pc = "done" \/ (pc = "batched" /\ jj < j)}
\* a cube write without its trade and value: the cell and what fixes its scale
\* factors (ScaleOf): numRatio or num, the grid index and the sample the fx rate and
\* the state are read at, and the grid index of the numeraire time
WriteOf(c) ==
    [dateIndex |-> c.dateIndex, sample |-> c.sample, depth |-> c.depth,
     scale |-> c.val.scale, at |-> c.val.at, time |-> c.val.time, of |-> c.val.sample]
WritesOf(calls) == {WriteOf(calls[n]) : n \in 1..Len(calls)}
WritesAt(jj) == WritesOf(SetCallsAt(jj))

\* C40: on the same grid and mpor mode the batched pass of a trade writes the same
\* set of (date index, sample, depth) cells, with the same scale factors, as the
\* single-path passes of a trade over all samples, each cell once; the single-path
\* writes come sample by sample, the batched ones date by date.  Stated where the
\* passes end: at the end of the sample loop for the single-path positions, at the
\* end of its pass for a batched position.
C40_BatchedWritesAsSinglePath ==
    [][/\ (pc = "single" /\ pc' = "batched") =>
             \A jS \in SinglePathPositions' :
                LET calls == SetCallsAt(jS)'
                IN  /\ Len(calls) = Cardinality(WritesOf(calls))
                    /\ \A n \in 1..(Len(calls) - 1) : calls[n].sample <= calls[n + 1].sample
       /\ \A jB \in BatchedPositions :
          (pc = "batched" /\ pc' = "batched" /\ j = jB /\ j' = jB + 1) =>
             LET calls == SetCallsAt(jB)'
             IN  /\ Len(calls) = Cardinality(WritesOf(calls))
                 /\ \A n \in 1..Len(calls) :
                       /\ calls[n].sample = (n - 1) % samples
                       /\ (n - 1) % samples # 0 =>
                             /\ calls[n].dateIndex = calls[n - 1].dateIndex
                             /\ calls[n].depth = calls[n - 1].depth
                 /\ \A jS \in SinglePathPositions :
                       WritesOf(SetCallsAt(jS)') = WritesOf(calls)
    ]_vars

C40_Witness ==
    /\ pc = "done"
    /\ samples = MaxSamples
    /\ withCloseOutLag
    /\ NumDates = MaxDates
    /\ \E jS \in SinglePathDone : \E jB \in BatchedDone :
          /\ \E w \in WritesAt(jS) : w.depth = 1 /\ w.sample > 0
          /\ \E w \in WritesAt(jB) : w.depth = 0 /\ w.dateIndex > 0
====
